---- MODULE Spec2Model ----
(***************************************************************************)
(* A model of the dominance engine (gameanalysis/dominance.py) and of the  *)
(* dict-based role-symmetric Game (RoleSymmetricGame.py).                  *)
(*                                                                         *)
(* numpy arrays are sequences; a 2-d array is a sequence of rows.  numpy   *)
(* indices are 0-based: At(a, i) reads a[i].  Floats are integers plus the *)
(* one value NaN; every comparison with NaN is false, every difference     *)
(* with NaN is NaN.                                                        *)
(***************************************************************************)
EXTENDS Integers, Sequences, FiniteSets, TLC

VARIABLES
    game,        \* the payoff game handed to the dominance engine
    pc,          \* "idle", then "ret" | "error" | "loop" ... "done"
    criterion,   \* "weakdom", "strictdom", "neverbr"
    conditional, \* the conditional flag of the call
    ret,         \* the mask returned by the last single-criterion call
    rest,        \* iterated_elimination: mask over the original strategies
    mask,        \* iterated_elimination: mask over the surviving strategies
    gains,       \* iterated_elimination: the (sliced) gains array
    supports,    \* iterated_elimination: the (sliced) supports array
    num_strats,  \* iterated_elimination: strategies per role, surviving
    iters,       \* number of executions of the loop body
    data,        \* RoleSymmetricGame.Game: the dict of profile -> payoffs
    gpc,         \* RoleSymmetricGame.Game: "new" before __init__, then "built"
    last,        \* RoleSymmetricGame.Game: "ok", or the exception of the last call
    sgame,       \* the sample game of the payoff-game calls
    self,        \* RoleSymmetricGame.Game: the game object of the query calls
    call,        \* the last call made: its name and its arguments
    result       \* what the last call raised and what it returned

domvars == <<game, pc, criterion, conditional, ret, rest, mask, gains,
             supports, num_strats, iters>>
gamevars == <<data, gpc, last>>
callvars == <<sgame, self, call, result>>
vars == <<domvars, gamevars, callvars>>

----------------------------------------------------------------------------
(* Bounds of the model.                                                    *)

MaxPay == 1      \* payoffs are drawn from 0..MaxPay, or are NaN
MaxHoles == 1    \* budget of holes: absent profiles plus NaN payoffs
MaxBatch == 2    \* profiles in the payoff data of one Game call
MixDen == 2      \* mixture probabilities are multiples of 1 / MixDen
MaxObs == 2      \* observations of one profile of a sample game
MaxDeep == 1     \* profiles of a sample game with more than one observation
MaxResamples == 2 \* the num_resamples argument of resample

----------------------------------------------------------------------------
(* Floats.                                                                 *)

NaN == -999

IsNaN(x) == x = NaN
FSub(a, b) == IF IsNaN(a) \/ IsNaN(b) THEN NaN ELSE a - b
FGt(a, b) == ~IsNaN(a) /\ ~IsNaN(b) /\ a > b
FGe(a, b) == ~IsNaN(a) /\ ~IsNaN(b) /\ a >= b
FEq(a, b) == ~IsNaN(a) /\ ~IsNaN(b) /\ a = b
\* np.fmax: the larger value, a NaN only when both are NaN
Fmax(a, b) == IF IsNaN(a) THEN b ELSE IF IsNaN(b) THEN a
              ELSE IF a >= b THEN a ELSE b

----------------------------------------------------------------------------
(* numpy primitives on 1-d arrays.                                         *)

At(a, i) == a[i + 1]
Arange(n) == [i \in 1..n |-> i - 1]
AllButLast(a) == SubSeq(a, 1, Len(a) - 1)
Insert0(a) == <<0>> \o a

RECURSIVE SumSeq(_)
SumSeq(a) == IF a = <<>> THEN 0 ELSE Head(a) + SumSeq(Tail(a))

CumSum(a) == [i \in 1..Len(a) |-> SumSeq(SubSeq(a, 1, i))]

\* np.repeat(a, c): a[i] repeated c[i] times
RECURSIVE Repeat(_, _)
Repeat(a, c) ==
    IF a = <<>> THEN <<>>
    ELSE [i \in 1..Head(c) |-> Head(a)] \o Repeat(Tail(a), Tail(c))

\* np.repeat(a, c, -1) of a 2-d array: every row repeated by c
RECURSIVE RepeatRows(_, _)
RepeatRows(a, c) ==
    IF a = <<>> THEN <<>>
    ELSE <<Repeat(Head(a), c)>> \o RepeatRows(Tail(a), c)

\* a[m] for a boolean mask m
RECURSIVE Compress(_, _)
Compress(a, m) ==
    IF a = <<>> THEN <<>>
    ELSE (IF Head(m) THEN <<Head(a)>> ELSE <<>>) \o Compress(Tail(a), Tail(m))

\* a[:, m] of a 2-d array: every row restricted to the mask m
RECURSIVE CompressRows(_, _)
CompressRows(a, m) ==
    IF a = <<>> THEN <<>>
    ELSE <<Compress(Head(a), m)>> \o CompressRows(Tail(a), m)

\* the number of true entries of a boolean array
Count(m) == Len(Compress(m, m))

\* np.insert(a, idx, v) for non-decreasing idx: v goes before a[idx[k]]
RECURSIVE NpInsertFrom(_, _, _, _)
NpInsertFrom(a, idx, v, k) ==
    IF idx # <<>> /\ Head(idx) = k
    THEN <<v>> \o NpInsertFrom(a, Tail(idx), v, k)
    ELSE IF k >= Len(a) THEN <<>>
    ELSE <<At(a, k)>> \o NpInsertFrom(a, idx, v, k + 1)

NpInsert(a, idx, v) == NpInsertFrom(a, idx, v, 0)

\* np.insert(a, idx, v, -1) of a 2-d array: the insertion in every row
RECURSIVE NpInsertRows(_, _, _)
NpInsertRows(a, idx, v) ==
    IF a = <<>> THEN <<>>
    ELSE <<NpInsert(Head(a), idx, v)>> \o NpInsertRows(Tail(a), idx, v)

\* the end of the i-th slice of ufunc.reduceat(a, idx)
SliceEnd(a, idx, i) == IF i = Len(idx) THEN Len(a) ELSE idx[i + 1]

\* ufunc.reduceat raises IndexError when an index is outside [0, len(a))
ReduceAtRaises(a, idx) == \E i \in 1..Len(idx) : idx[i] >= Len(a)

\* np.add.reduceat(a, idx) of a boolean array: counts; an empty slice
\* yields the element at its start
AddReduceAt(a, idx) ==
    [i \in 1..Len(idx) |->
        IF idx[i] < SliceEnd(a, idx, i)
        THEN Count(SubSeq(a, idx[i] + 1, SliceEnd(a, idx, i)))
        ELSE IF At(a, idx[i]) THEN 1 ELSE 0]

RECURSIVE FmaxAll(_)
FmaxAll(a) == IF Len(a) = 1 THEN Head(a) ELSE Fmax(Head(a), FmaxAll(Tail(a)))

\* np.fmax.reduceat(a, idx)
FmaxReduceAt(a, idx) ==
    [i \in 1..Len(idx) |->
        IF idx[i] < SliceEnd(a, idx, i)
        THEN FmaxAll(SubSeq(a, idx[i] + 1, SliceEnd(a, idx, i)))
        ELSE At(a, idx[i])]

\* np.fmax.reduceat(a, idx, -1) of a 2-d array, each group's value repeated
\* over the group by np.repeat(..., c, -1)
RECURSIVE FmaxReduceAtRepeatRows(_, _, _)
FmaxReduceAtRepeatRows(a, idx, c) ==
    IF a = <<>> THEN <<>>
    ELSE <<Repeat(FmaxReduceAt(Head(a), idx), c)>>
            \o FmaxReduceAtRepeatRows(Tail(a), idx, c)

\* np.logical_or.reduceat(a, idx)
OrReduceAt(a, idx) ==
    [i \in 1..Len(idx) |->
        IF idx[i] < SliceEnd(a, idx, i)
        THEN \E j \in (idx[i] + 1)..SliceEnd(a, idx, i) : a[j]
        ELSE At(a, idx[i])]

\* np.insert(num_strats[:-1].cumsum(), 0, 0): the start of every role
role_starts(ns) == Insert0(CumSum(AllButLast(ns)))

\* a[m] = vals for a boolean mask m: the true places of m take vals in order
RECURSIVE Scatter(_, _, _)
Scatter(a, m, vals) ==
    IF a = <<>> THEN <<>>
    ELSE IF Head(m) THEN <<Head(vals)>> \o Scatter(Tail(a), Tail(m), Tail(vals))
    ELSE <<Head(a)>> \o Scatter(Tail(a), Tail(m), vals)

Not(m) == [i \in 1..Len(m) |-> ~m[i]]

----------------------------------------------------------------------------
(* gameanalysis/dominance.py                                               *)

\* the deviation strategy (target) index of every entry of a deviation
\* array that includes the self deviations
dev_inds(ns) ==
    LET sizes == Repeat(ns, ns)
        offsets == Insert0(CumSum(sizes))
        strat_offs == Repeat(AllButLast(offsets), sizes)
        role_offs == Repeat(role_starts(ns), [r \in 1..Len(ns) |-> ns[r] * ns[r]])
    IN [i \in 1..offsets[Len(offsets)] |-> (i - 1) - strat_offs[i] + role_offs[i]]

\* np.logical_or.reduceat(a, indices) in place of _reduceat: an empty slice
\* yields the element at its start (False past the end of a)
reduceat_plain(a, indices) ==
    [i \in 1..Len(indices) |->
        IF indices[i] < SliceEnd(a, indices, i)
        THEN \E j \in (indices[i] + 1)..SliceEnd(a, indices, i) : a[j]
        ELSE indices[i] < Len(a) /\ At(a, indices[i])]

\* _reduceat(np.logical_or, a, indices): reduceat with an empty slice
\* reduced to the identity of logical_or
reduceat(a, indices) ==
    LET valid == [i \in 1..Len(indices) |-> SliceEnd(a, indices, i) - indices[i] > 0]
        out == [i \in 1..Len(indices) |-> FALSE]
    IN Scatter(out, valid, OrReduceAt(a, Compress(indices, valid)))

\* (dominated.any(0) & not_dominates.all(0)) of both dominance criteria
AnyAndAll(dominated, not_dominates, ncols) ==
    [d \in 1..ncols |->
        /\ \E p \in 1..Len(dominated) : dominated[p][d]
        /\ \A p \in 1..Len(not_dominates) : not_dominates[p][d]]

\* _weak_dominance(gains, supports, num_strats, conditional)
weak_dominance(g, s, ns, cond) ==
    LET sizes == Repeat([r \in 1..Len(ns) |-> ns[r] - 1], ns)
        offsets == Insert0(CumSum(AllButLast(sizes)))
        ncols == SumSeq(sizes)
        supp == RepeatRows(s, sizes)
        dominated == [p \in 1..Len(g) |->
            [d \in 1..ncols |-> FGe(g[p][d], 0) /\ supp[p][d]]]
        not_dominates == [p \in 1..Len(g) |->
            [d \in 1..ncols |-> \/ dominated[p][d]
                                \/ ~supp[p][d]
                                \/ (~cond /\ IsNaN(g[p][d]))]]
    IN reduceat(AnyAndAll(dominated, not_dominates, ncols), offsets)

\* _strict_dominance with `gains >= 0` for `gains > 0`
strict_dominance_ge(g, s, ns, cond) ==
    LET sizes == Repeat([r \in 1..Len(ns) |-> ns[r] - 1], ns)
        offsets == Insert0(CumSum(AllButLast(sizes)))
        ncols == SumSeq(sizes)
        supp == RepeatRows(s, sizes)
        dominated == [p \in 1..Len(g) |->
            [d \in 1..ncols |-> FGe(g[p][d], 0)]]
        not_dominates == [p \in 1..Len(g) |->
            [d \in 1..ncols |-> \/ dominated[p][d]
                                \/ ~supp[p][d]
                                \/ (~cond /\ IsNaN(g[p][d]))]]
    IN reduceat(AnyAndAll(dominated, not_dominates, ncols), offsets)

\* _strict_dominance(gains, supports, num_strats, conditional)
strict_dominance(g, s, ns, cond) ==
    LET sizes == Repeat([r \in 1..Len(ns) |-> ns[r] - 1], ns)
        offsets == Insert0(CumSum(AllButLast(sizes)))
        ncols == SumSeq(sizes)
        supp == RepeatRows(s, sizes)
        dominated == [p \in 1..Len(g) |->
            [d \in 1..ncols |-> FGt(g[p][d], 0)]]
        not_dominates == [p \in 1..Len(g) |->
            [d \in 1..ncols |-> \/ dominated[p][d]
                                \/ ~supp[p][d]
                                \/ (~cond /\ IsNaN(g[p][d]))]]
    IN reduceat(AnyAndAll(dominated, not_dominates, ncols), offsets)

\* _never_best_response without the zero gain of the self deviation taking
\* part in the best gain: the best gain is that of the other strategies
never_best_response_noself(g, s, ns, cond) ==
    LET self_sizes == Repeat(ns, ns)
        self_offsets == Insert0(CumSum(AllButLast(self_sizes)))
        ncols == SumSeq(self_sizes)
        starts == Repeat(role_starts(ns), ns)
        self_inds == [i \in 1..Len(self_offsets) |-> self_offsets[i] - starts[i]]
        self_gains == NpInsertRows(g, self_inds, NaN)
        best_gains == FmaxReduceAtRepeatRows(self_gains, self_offsets, self_sizes)
        supp == RepeatRows(s, self_sizes)
        best_resps == [p \in 1..Len(g) |->
            [j \in 1..ncols |->
                \/ FEq(best_gains[p][j], self_gains[p][j]) /\ supp[p][j]
                \/ (cond /\ IsNaN(best_gains[p][j]))]]
        is_br == [j \in 1..ncols |-> \E p \in 1..Len(g) : best_resps[p][j]]
        inds == dev_inds(ns)
    IN [t \in 1..SumSeq(ns) |->
            ~(\E j \in 1..ncols : inds[j] = t - 1 /\ is_br[j])]

\* _never_best_response(gains, supports, num_strats, conditional)
never_best_response(g, s, ns, cond) ==
    LET self_sizes == Repeat(ns, ns)
        self_offsets == Insert0(CumSum(AllButLast(self_sizes)))
        ncols == SumSeq(self_sizes)
        starts == Repeat(role_starts(ns), ns)
        self_inds == [i \in 1..Len(self_offsets) |-> self_offsets[i] - starts[i]]
        self_gains == NpInsertRows(g, self_inds, 0)
        best_gains == FmaxReduceAtRepeatRows(self_gains, self_offsets, self_sizes)
        supp == RepeatRows(s, self_sizes)
        best_resps == [p \in 1..Len(g) |->
            [j \in 1..ncols |->
                \/ FEq(best_gains[p][j], self_gains[p][j]) /\ supp[p][j]
                \/ (cond /\ IsNaN(best_gains[p][j]))]]
        is_br == [j \in 1..ncols |-> \E p \in 1..Len(g) : best_resps[p][j]]
        inds == dev_inds(ns)
    IN [t \in 1..SumSeq(ns) |->
            ~(\E j \in 1..ncols : inds[j] = t - 1 /\ is_br[j])]

\* _CRITERIA[criterion](gains, supports, num_strats, conditional)
cfunc(crit, g, s, ns, cond) ==
    CASE crit = "weakdom" -> weak_dominance(g, s, ns, cond)
      [] crit = "strictdom" -> strict_dominance(g, s, ns, cond)
      [] crit = "neverbr" -> never_best_response(g, s, ns, cond)

----------------------------------------------------------------------------
(* The payoff game: a schema (players and strategies per role), a 2-d      *)
(* array of profiles and a parallel array of payoffs.                      *)

\* game.get_payoffs(prof): the stored row, or NaN on the support of an
\* absent profile and 0 elsewhere
get_payoffs(g, prof) ==
    IF \E i \in 1..Len(g.profiles) : g.profiles[i] = prof
    THEN g.payoffs[CHOOSE i \in 1..Len(g.profiles) : g.profiles[i] = prof]
    ELSE [i \in 1..Len(prof) |-> IF prof[i] > 0 THEN NaN ELSE 0]

\* the strategy a deviation starts from, for every entry of a deviation
\* array that includes the self deviations
strat_inds(ns) == Repeat(Arange(SumSeq(ns)), Repeat(ns, ns))

\* the (from, to) strategy indices of the deviations, self deviations left out
dev_pairs(ns) ==
    LET di == dev_inds(ns)
        si == strat_inds(ns)
        nonself == [i \in 1..Len(di) |-> di[i] # si[i]]
    IN [from |-> Compress(si, nonself), to |-> Compress(di, nonself)]

\* regret.pure_strategy_deviation_gains(game, prof): for every deviation
\* s -> t (from[k] -> to[k], the order of dev_pairs) the payoff to t after
\* the deviation minus the payoff to s in prof; 0 where prof does not
\* support s
RECURSIVE pure_strategy_deviation_gains(_, _, _, _)
pure_strategy_deviation_gains(g, prof, from, to) ==
    IF from = <<>> THEN <<>>
    ELSE LET s == Head(from) + 1
             t == Head(to) + 1
             dev == [i \in 1..Len(prof) |->
                       IF i = s THEN prof[i] - 1
                       ELSE IF i = t THEN prof[i] + 1 ELSE prof[i]]
         IN <<IF prof[s] > 0
              THEN FSub(get_payoffs(g, dev)[t], get_payoffs(g, prof)[s])
              ELSE 0>>
             \o pure_strategy_deviation_gains(g, prof, Tail(from), Tail(to))

\* [pure_strategy_deviation_gains(game, prof) for prof in profs]
RECURSIVE gain_rows(_, _, _, _)
gain_rows(g, profs, from, to) ==
    IF profs = <<>> THEN <<>>
    ELSE <<pure_strategy_deviation_gains(g, Head(profs), from, to)>>
            \o gain_rows(g, Tail(profs), from, to)

\* _gains(game); np.concatenate raises ValueError on a game with no profiles
gains_of(g) ==
    LET dp == dev_pairs(g.strats)
    IN gain_rows(g, g.profiles, dp.from, dp.to)

gains_raises(g) == g.profiles = <<>>

\* game.profiles() > 0
supports_of(g) == [p \in 1..Len(g.profiles) |->
                    [i \in 1..Len(g.profiles[p]) |-> g.profiles[p][i] > 0]]

----------------------------------------------------------------------------
(* iterated_elimination: the locals of the loop as a record.               *)

All(m) == \A i \in 1..Len(m) : m[i]

\* lines 142-147, with gains0 = _gains(game), supports0 = game.profiles() > 0
\* and ns = game.num_role_strats
iter_start(crit, gains0, supports0, ns, cond) ==
    [rest |-> [i \in 1..SumSeq(ns) |-> TRUE],
     mask |-> Not(cfunc(crit, gains0, supports0, ns, cond)),
     gains |-> gains0,
     supports |-> supports0,
     num_strats |-> ns]

\* the reduceat of the while condition raises IndexError; `and` evaluates
\* it only when some strategy is eliminated
loop_raises(st) ==
    ~All(st.mask) /\ ReduceAtRaises(st.mask, role_starts(st.num_strats))

\* the while condition without its `~np.all(mask)`
loop_cond_any(st) ==
    LET n == AddReduceAt(st.mask, role_starts(st.num_strats))
    IN \E r \in 1..Len(n) : n[r] > 1

\* the condition of the while loop, lines 148-149
loop_cond(st) ==
    /\ ~All(st.mask)
    /\ LET n == AddReduceAt(st.mask, role_starts(st.num_strats))
       IN \E r \in 1..Len(n) : n[r] > 1

\* the body of the while loop keeping every profile
loop_body_allrows(crit, cond, st) ==
    LET ns == st.num_strats
        m == st.mask
        prof_mask == [p \in 1..Len(st.supports) |-> TRUE]
        dp == dev_pairs(ns)
        dev_in_supp == [d \in 1..Len(dp.to) |-> m[dp.to[d] + 1]]
        strat_in_supp == Repeat(m, Repeat([r \in 1..Len(ns) |-> ns[r] - 1], ns))
        cols == [d \in 1..Len(dev_in_supp) |-> dev_in_supp[d] /\ strat_in_supp[d]]
        rows_s == Compress(st.supports, prof_mask)
        rows_g == Compress(st.gains, prof_mask)
        supports1 == CompressRows(rows_s, m)
        gains1 == CompressRows(rows_g, cols)
        ns1 == AddReduceAt(m, role_starts(ns))
    IN [rest |-> Scatter(st.rest, st.rest, m),
        mask |-> Not(cfunc(crit, gains1, supports1, ns1, cond)),
        gains |-> gains1,
        supports |-> supports1,
        num_strats |-> ns1]

\* the body of the while loop, lines 150-162
loop_body(crit, cond, st) ==
    LET ns == st.num_strats
        m == st.mask
        prof_mask == [p \in 1..Len(st.supports) |->
            ~(\E i \in 1..Len(m) : st.supports[p][i] /\ ~m[i])]
        dp == dev_pairs(ns)
        dev_in_supp == [d \in 1..Len(dp.to) |-> m[dp.to[d] + 1]]
        strat_in_supp == Repeat(m, Repeat([r \in 1..Len(ns) |-> ns[r] - 1], ns))
        cols == [d \in 1..Len(dev_in_supp) |-> dev_in_supp[d] /\ strat_in_supp[d]]
        rows_s == Compress(st.supports, prof_mask)
        rows_g == Compress(st.gains, prof_mask)
        supports1 == CompressRows(rows_s, m)
        gains1 == CompressRows(rows_g, cols)
        ns1 == AddReduceAt(m, role_starts(ns))
    IN [rest |-> Scatter(st.rest, st.rest, m),
        mask |-> Not(cfunc(crit, gains1, supports1, ns1, cond)),
        gains |-> gains1,
        supports |-> supports1,
        num_strats |-> ns1]

\* lines 164-165
loop_exit(st) == Scatter(st.rest, st.rest, st.mask)

----------------------------------------------------------------------------
(* The games the engine is run on: every schema below, every set of stored *)
(* profiles, every payoff in 0..MaxPay or NaN on the support of a stored   *)
(* profile, within the schema's budget of holes (absent profiles plus NaN  *)
(* payoffs).                                                               *)

\* the count vectors of n players over k strategies
RECURSIVE RoleProfiles(_, _)
RoleProfiles(n, k) ==
    IF k = 1 THEN {<<n>>}
    ELSE UNION {{<<c>> \o q : q \in RoleProfiles(n - c, k - 1)} : c \in 0..n}

\* all legal profiles of a schema: the product of the roles' count vectors
RECURSIVE AllProfiles(_, _)
AllProfiles(players, strats) ==
    IF players = <<>> THEN {<<>>}
    ELSE {p \o q : p \in RoleProfiles(Head(players), Head(strats)),
                   q \in AllProfiles(Tail(players), Tail(strats))}

\* the payoff rows a profile may carry with exactly k NaN entries: a payoff
\* in 0..MaxPay or NaN on the support, not NaN on all of it, and 0 wherever
\* the count is 0 (the rows paygame.game accepts)
PayoffRows(prof, k) ==
    {r \in [1..Len(prof) -> (0..MaxPay) \cup {NaN}] :
        /\ \A i \in 1..Len(prof) : prof[i] = 0 => r[i] = 0
        /\ \E i \in 1..Len(prof) : prof[i] > 0 /\ ~IsNaN(r[i])
        /\ Cardinality({i \in 1..Len(prof) : IsNaN(r[i])}) = k}

RECURSIVE SetToSeq(_)
SetToSeq(S) ==
    IF S = {} THEN <<>>
    ELSE LET x == CHOOSE x \in S : TRUE IN <<x>> \o SetToSeq(S \ {x})

\* every choice of stored profiles (in the order of profs) with their rows,
\* with at most h holes: absent profiles plus NaN payoffs
RECURSIVE Tables(_, _)
Tables(profs, h) ==
    IF profs = <<>> THEN {[profiles |-> <<>>, payoffs |-> <<>>]}
    ELSE (IF h > 0 THEN Tables(Tail(profs), h - 1) ELSE {})
         \cup UNION {{[profiles |-> <<Head(profs)>> \o t.profiles,
                       payoffs |-> <<r>> \o t.payoffs] :
                         r \in PayoffRows(Head(profs), k),
                         t \in Tables(Tail(profs), h - k)} : k \in 0..h}

GamesOf(players, strats, holes) ==
    {[players |-> players, strats |-> strats,
      profiles |-> t.profiles, payoffs |-> t.payoffs] :
        t \in Tables(SetToSeq(AllProfiles(players, strats)), holes)}

\* small schemas with any data missing, larger ones with few holes
Games(holes) ==
    GamesOf(<<2>>, <<2>>, holes + 3)
      \cup GamesOf(<<1>>, <<3>>, holes + 2)
      \cup GamesOf(<<1, 1>>, <<1, 2>>, holes + 3)
      \cup GamesOf(<<1, 1>>, <<2, 2>>, holes)
      \cup GamesOf(<<2>>, <<3>>, holes - 1)
      \cup GamesOf(<<1, 1>>, <<2, 3>>, holes - 1)

\* restrict(game, m) keeping every stored profile
Restrict_keepall(g, m) ==
    [players |-> g.players,
     strats |-> [r \in 1..Len(g.strats) |->
                   Cardinality({i \in 1..Len(m) :
                       /\ m[i]
                       /\ role_starts(g.strats)[r] < i
                       /\ i <= role_starts(g.strats)[r] + g.strats[r]})],
     profiles |-> [p \in 1..Len(g.profiles) |-> Compress(g.profiles[p], m)],
     payoffs |-> [p \in 1..Len(g.payoffs) |-> Compress(g.payoffs[p], m)]]

\* restrict(game, m): the sub-game over the strategies of mask m; keeps the
\* profiles whose support lies in m, sliced to the columns of m
Restrict(g, m) ==
    LET keep == [p \in 1..Len(g.profiles) |->
                    \A i \in 1..Len(m) : g.profiles[p][i] > 0 => m[i]]
        profs == Compress(g.profiles, keep)
        pays == Compress(g.payoffs, keep)
    IN [players |-> g.players,
        strats |-> [r \in 1..Len(g.strats) |->
                      Cardinality({i \in 1..Len(m) :
                          /\ m[i]
                          /\ role_starts(g.strats)[r] < i
                          /\ i <= role_starts(g.strats)[r] + g.strats[r]})],
        profiles |-> [p \in 1..Len(profs) |-> Compress(profs[p], m)],
        payoffs |-> [p \in 1..Len(pays) |-> Compress(pays[p], m)]]

\* the while loop of iterated_elimination run to its end, lines 148-165:
\* the exception raised ("none" when the call returns) and the mask returned
RECURSIVE run_loop(_, _, _)
run_loop(crit, cond, st) ==
    IF loop_raises(st) THEN [raises |-> "IndexError", rest |-> <<>>]
    ELSE IF loop_cond(st) THEN run_loop(crit, cond, loop_body(crit, cond, st))
    ELSE [raises |-> "none", rest |-> loop_exit(st)]

\* iterated_elimination(game, criterion, conditional=conditional)
iterated_elimination(g, crit, cond) ==
    IF gains_raises(g) THEN [raises |-> "ValueError", rest |-> <<>>]
    ELSE run_loop(crit, cond,
            iter_start(crit, gains_of(g), supports_of(g), g.strats, cond))

Criteria == {"weakdom", "strictdom", "neverbr"}

----------------------------------------------------------------------------
(* The dominance engine as a state machine.                                *)

Locals == [rest |-> rest, mask |-> mask, gains |-> gains,
           supports |-> supports, num_strats |-> num_strats]

SetLocals(st) ==
    /\ rest' = st.rest
    /\ mask' = st.mask
    /\ gains' = st.gains
    /\ supports' = st.supports
    /\ num_strats' = st.num_strats

InitGame ==
    /\ data = <<>>
    /\ gpc = "off"
    /\ last = "ok"

\* no call has been made
InitCall ==
    /\ sgame = <<>>
    /\ self = <<>>
    /\ call = [op |-> "none"]
    /\ result = [raises |-> "none", value |-> <<>>]

InitDom ==
    /\ game \in Games(MaxHoles)
    /\ pc = "idle"
    /\ criterion = "none"
    /\ conditional = FALSE
    /\ ret = <<>>
    /\ rest = <<>>
    /\ mask = <<>>
    /\ gains = <<>>
    /\ supports = <<>>
    /\ num_strats = <<>>
    /\ iters = 0
    /\ InitGame
    /\ InitCall

\* weakly_dominated, strictly_dominated, never_best_response
Dominated ==
    /\ pc = "idle"
    /\ ~gains_raises(game)
    /\ LET gains0 == gains_of(game)
           supports0 == supports_of(game)
       IN \E crit \in Criteria, cond \in BOOLEAN :
            /\ criterion' = crit
            /\ conditional' = cond
            /\ ret' = cfunc(crit, gains0, supports0, game.strats, cond)
    /\ pc' = "ret"
    /\ UNCHANGED <<game, rest, mask, gains, supports, num_strats, iters, gamevars, callvars>>

\* any of the calls on a game with no profiles: _gains raises
GainsRaise ==
    /\ pc = "idle"
    /\ gains_raises(game)
    /\ \E crit \in Criteria, cond \in BOOLEAN :
         /\ criterion' = crit
         /\ conditional' = cond
    /\ pc' = "error"
    /\ UNCHANGED <<game, ret, rest, mask, gains, supports, num_strats, iters, gamevars, callvars>>

\* iterated_elimination up to the first test of the loop condition
IterStart ==
    /\ pc = "idle"
    /\ ~gains_raises(game)
    /\ LET gains0 == gains_of(game)
           supports0 == supports_of(game)
       IN \E crit \in Criteria, cond \in BOOLEAN :
            /\ criterion' = crit
            /\ conditional' = cond
            /\ SetLocals(iter_start(crit, gains0, supports0, game.strats, cond))
    /\ pc' = "loop"
    /\ UNCHANGED <<game, ret, iters, gamevars, callvars>>

\* one execution of the loop body
IterBody ==
    /\ pc = "loop"
    /\ ~loop_raises(Locals)
    /\ loop_cond(Locals)
    /\ SetLocals(loop_body(criterion, conditional, Locals))
    /\ iters' = iters + 1
    /\ UNCHANGED <<game, pc, criterion, conditional, ret, gamevars, callvars>>

\* the loop condition is false: rest[rest] = mask; return rest
IterExit ==
    /\ pc = "loop"
    /\ ~loop_raises(Locals)
    /\ ~loop_cond(Locals)
    /\ rest' = loop_exit(Locals)
    /\ pc' = "done"
    /\ UNCHANGED <<game, criterion, conditional, ret, mask, gains, supports,
                   num_strats, iters, gamevars, callvars>>

NextDom == Dominated \/ GainsRaise \/ IterStart \/ IterBody \/ IterExit

SpecDom == InitDom /\ [][NextDom]_vars

----------------------------------------------------------------------------
(* RoleSymmetricGame.py: the dict-based Game.  A Profile maps roles to      *)
(* SymmetricProfiles, sorted tuples of strategies; the Game is a dict from  *)
(* Profiles to payoffs.  Payoffs are opaque values here.                    *)

\* Game.roles, Game.counts, Game.strategies of the game under construction
roles == {"R1", "R2"}
counts == [r \in roles |-> 1]
strategies == [r \in roles |-> IF r = "R1" THEN {"a", "b"} ELSE {"c"}]

\* the profiles handed to the game: the legal ones, and one per kind of
\* shape violation
LegalProfiles ==
    {[R1 |-> <<"a">>, R2 |-> <<"c">>], [R1 |-> <<"b">>, R2 |-> <<"c">>]}
WrongCount == [R1 |-> <<"a", "a">>, R2 |-> <<"c">>]
UnknownStrategy == [R1 |-> <<"z">>, R2 |-> <<"c">>]
UnknownRole == [R1 |-> <<"a">>, R2 |-> <<"c">>, R3 |-> <<"c">>]
MissingRole == [R1 |-> <<"a">>]
Profiles ==
    LegalProfiles \cup {WrongCount, UnknownStrategy, UnknownRole, MissingRole}

\* payoff data: a dict over at most MaxBatch profiles
Batches ==
    UNION {[S -> 0..MaxPay] :
             S \in {T \in SUBSET Profiles : Cardinality(T) <= MaxBatch}}

\* dict.update(d, e)
DictUpdate(d, e) ==
    [k \in DOMAIN d \cup DOMAIN e |-> IF k \in DOMAIN e THEN e[k] ELSE d[k]]

\* Game.isValidProfile(profile), lines 227-241; the keys are Profile objects
\* holding SymmetricProfiles
isValidProfile(d, profile) ==
    \/ profile \in DOMAIN d
    \/ \A r \in DOMAIN profile :
          /\ r \in roles
          /\ Len(profile[r]) = counts[r]
          /\ \A i \in 1..Len(profile[r]) : profile[r][i] \in strategies[r]

\* Game.__init__, lines 199-205: dict.update(self, payoffs)
Construct ==
    /\ gpc = "new"
    /\ \E payoffs \in Batches : data' = DictUpdate(data, payoffs)
    /\ gpc' = "built"
    /\ last' = "ok"
    /\ UNCHANGED <<domvars, callvars>>

\* Game.__setitem__, lines 207-209
SetItem ==
    /\ gpc = "built"
    /\ \E profile \in Profiles, payoffs \in 0..MaxPay :
         /\ call' = [op |-> "setitem", args |-> [k \in {profile} |-> payoffs]]
         /\ \/ /\ isValidProfile(data, profile)
               /\ data' = DictUpdate(data, [k \in {profile} |-> payoffs])
               /\ last' = "ok"
            \/ /\ ~isValidProfile(data, profile)
               /\ data' = data
               /\ last' = "AssertionError"
    /\ UNCHANGED <<gpc, domvars, sgame, self, result>>

\* Game.update, lines 211-216
\* Game.update storing the profiles it has found valid so far
update_partial(d, e) ==
    IF \A profile \in DOMAIN e : isValidProfile(d, profile)
    THEN [raises |-> "none", value |-> DictUpdate(d, e)]
    ELSE [raises |-> "AssertionError",
          value |-> DictUpdate(d, [k \in {profile \in DOMAIN e :
                                              isValidProfile(d, profile)}
                                      |-> e[k]])]

\* Game.update(e) on the payoff data d, lines 211-216: every profile is
\* asserted valid before any is stored
update(d, e) ==
    IF \A profile \in DOMAIN e : isValidProfile(d, profile)
    THEN [raises |-> "none", value |-> DictUpdate(d, e)]
    ELSE [raises |-> "AssertionError", value |-> d]

\* Game.update, lines 211-216
Update ==
    /\ gpc = "built"
    /\ \E d \in Batches :
         /\ call' = [op |-> "update", args |-> d]
         /\ data' = update(data, d).value
         /\ last' = IF update(data, d).raises = "none" THEN "ok"
                    ELSE update(data, d).raises
    /\ UNCHANGED <<gpc, domvars, sgame, self, result>>

InitRSG ==
    /\ data = <<>>
    /\ gpc = "new"
    /\ last = "ok"
    /\ game = <<>>
    /\ pc = "off"
    /\ criterion = "none"
    /\ conditional = FALSE
    /\ ret = <<>>
    /\ rest = <<>>
    /\ mask = <<>>
    /\ gains = <<>>
    /\ supports = <<>>
    /\ num_strats = <<>>
    /\ iters = 0
    /\ InitCall

NextRSG == Construct \/ SetItem \/ Update

SpecRSG == InitRSG /\ [][NextRSG]_vars

----------------------------------------------------------------------------
(* The vocabulary of the claims, stated on strategies and profiles rather  *)
(* than on the engine's flattened deviation arrays.  Strategies are 1..n.  *)

Strats(g) == 1..SumSeq(g.strats)

RoleOf(g, s) ==
    CHOOSE r \in 1..Len(g.strats) :
        /\ role_starts(g.strats)[r] < s
        /\ s <= role_starts(g.strats)[r] + g.strats[r]

\* the other strategies of the role of s
Others(g, s) == {t \in Strats(g) : t # s /\ RoleOf(g, t) = RoleOf(g, s)}

\* the stored profiles that support s
Supporting(g, s) == {p \in 1..Len(g.profiles) : g.profiles[p][s] > 0}

\* the gain of one player of profile p deviating from s to t
Gain(g, p, s, t) ==
    LET prof == g.profiles[p]
        dev == [i \in 1..Len(prof) |->
                  IF i = s THEN prof[i] - 1
                  ELSE IF i = t THEN prof[i] + 1 ELSE prof[i]]
    IN IF s = t THEN 0
       ELSE FSub(get_payoffs(g, dev)[t], get_payoffs(g, prof)[s])

NoNaNGains(g) ==
    \A s \in Strats(g) : \A t \in Others(g, s) : \A p \in Supporting(g, s) :
        ~IsNaN(Gain(g, p, s, t))

\* the gain satisfies the criterion: >= 0 for weak, > 0 for strict dominance
Satisfies(crit, x) == IF crit = "weakdom" THEN FGe(x, 0) ELSE FGt(x, 0)

Returned(crit) == pc = "ret" /\ criterion = crit

----------------------------------------------------------------------------
(* The claims.                                                             *)

\* C1: with conditional = true a NaN gain counts as dominating: if every
\* gain of s -> t over the profiles supporting s is NaN or satisfies the
\* criterion, and one of them is not NaN and satisfies it, weakly_dominated
\* and strictly_dominated report s.
C1_NaNDominates ==
    (pc = "ret" /\ criterion \in {"weakdom", "strictdom"} /\ conditional) =>
        \A s \in Strats(game) : \A t \in Others(game, s) :
            ( /\ \A p \in Supporting(game, s) :
                    \/ IsNaN(Gain(game, p, s, t))
                    \/ Satisfies(criterion, Gain(game, p, s, t))
              /\ \E p \in Supporting(game, s) :
                    Satisfies(criterion, Gain(game, p, s, t)) )
            => ret[s]

\* C2: with conditional = false a NaN gain counts as not dominating:
\* weakly_dominated and strictly_dominated report s only when some other
\* strategy t of its role dominates it with no NaN gain of s -> t in any
\* profile supporting s.
C2_NaNBreaksDominance ==
    (pc = "ret" /\ criterion \in {"weakdom", "strictdom"} /\ ~conditional) =>
        \A s \in Strats(game) :
            ret[s] => \E t \in Others(game, s) : \A p \in Supporting(game, s) :
                        ~IsNaN(Gain(game, p, s, t))

\* C3: never_best_response honors conditional: with conditional = true, a
\* NaN gain of a deviation from a supported strategy s to t counts as t
\* being a best response, so t is not reported; with conditional = false a
\* NaN gain never counts as a best response.
C3_NaNIsBestResponse ==
    (Returned("neverbr") /\ conditional) =>
        \A s \in Strats(game) : \A t \in Others(game, s) :
            (\E p \in Supporting(game, s) : IsNaN(Gain(game, p, s, t)))
                => ~ret[t]

\* C4: for a game without NaN gains weakly_dominated reports s exactly when
\* some other strategy t of its role has gain s -> t >= 0 in every profile
\* supporting s and > 0 in at least one; gains that are all 0 do not make s
\* weakly dominated.
C4_WeakDominance ==
    (Returned("weakdom") /\ NoNaNGains(game)) =>
        \A s \in Strats(game) :
            ret[s] <=> \E t \in Others(game, s) :
                          /\ \A p \in Supporting(game, s) : FGe(Gain(game, p, s, t), 0)
                          /\ \E p \in Supporting(game, s) : FGt(Gain(game, p, s, t), 0)

\* C5: for a game without NaN gains strictly_dominated reports s exactly
\* when some other strategy t of its role has gain s -> t > 0 in every
\* profile of the game that supports s.
C5_StrictDominance ==
    (Returned("strictdom") /\ NoNaNGains(game)) =>
        \A s \in Strats(game) :
            ret[s] <=> \E t \in Others(game, s) :
                          \A p \in Supporting(game, s) : FGt(Gain(game, p, s, t), 0)

C5_Witness ==
    /\ Returned("strictdom") /\ NoNaNGains(game)
    /\ \E s \in Strats(game) : ret[s] /\ Cardinality(Supporting(game, s)) > 1
    /\ \E s \in Strats(game) : ~ret[s] /\ Others(game, s) # {}

\* the largest gain of deviating from s in profile p, staying on s included
BestGain(g, p, s) ==
    CHOOSE x \in {Gain(g, p, s, t) : t \in Others(g, s) \cup {s}} :
        \A t \in Others(g, s) \cup {s} : x >= Gain(g, p, s, t)

\* C6: for a game without NaN gains never_best_response reports t exactly
\* when in no profile p and for no strategy s of t's role with positive
\* count in p the gain of s -> t (0 when t = s) equals the largest gain of
\* deviating from s in p, the zero gain of staying on s included.
C6_NeverBestResponse ==
    (Returned("neverbr") /\ NoNaNGains(game)) =>
        \A t \in Strats(game) :
            ret[t] <=> ~(\E s \in Others(game, t) \cup {t} :
                          \E p \in Supporting(game, s) :
                             Gain(game, p, s, t) = BestGain(game, p, s))

C6_Witness ==
    /\ Returned("neverbr") /\ NoNaNGains(game)
    /\ \E t \in Strats(game) : ret[t] /\ Cardinality(Supporting(game, t)) > 1
    /\ \E t \in Strats(game) : ~ret[t] /\ Others(game, t) # {}

\* every role keeps a strategy under mask m
EveryRoleSurvives(g, m) ==
    \A r \in 1..Len(g.strats) : \E s \in Strats(g) : RoleOf(g, s) = r /\ m[s]

\* C7: for every game, criterion and conditional flag the mask returned by
\* iterated_elimination has a true entry in every role.
C7_EveryRoleKeepsAStrategy ==
    pc = "done" => EveryRoleSurvives(game, rest)

\* C8: iterated_elimination terminates: every execution of the loop body
\* removes at least one strategy from the surviving set, the loop body runs
\* at most as many times as there are strategies, and the loop condition
\* never raises, so the call always reaches its return.
C8_Terminates ==
    [][ /\ IterBody => Count(rest') < Count(rest)
        /\ iters' <= SumSeq(game.strats)
        /\ pc' = "loop" => ~loop_raises(Locals') ]_vars

C8_Witness == pc = "done" /\ iters >= 2

\* s is strictly dominated by t in game g (profiles supporting s exist)
StrictlyDominatedBy(g, s, t) ==
    /\ Supporting(g, s) # {}
    /\ \A p \in Supporting(g, s) : FGt(Gain(g, p, s, t), 0)

\* strategies a, b, c of one role of g: c is strictly dominated by a, and b
\* is strictly dominated by a only once c is removed
Chain(g, a, b, c) ==
    /\ {b, c} \subseteq Others(g, a) /\ b # c
    /\ StrictlyDominatedBy(g, c, a)
    /\ ~StrictlyDominatedBy(g, b, a)
    /\ LET m == [i \in Strats(g) |-> i # c]
           b1 == IF b > c THEN b - 1 ELSE b
           a1 == IF a > c THEN a - 1 ELSE a
       IN StrictlyDominatedBy(Restrict(g, m), b1, a1)

\* C9: the returned mask is a fixed point: iterated_elimination on the game
\* restricted to it, with the same criterion and conditional flag,
\* eliminates nothing; and under 'strictdom' a strategy c strictly
\* dominated by a and a strategy b strictly dominated by a once c is
\* removed are both removed.
C9_FixedPoint ==
    pc = "done" =>
        /\ EveryRoleSurvives(game, rest)
        /\ iterated_elimination(Restrict(game, rest), criterion, conditional)
              = [raises |-> "none", rest |-> [i \in 1..Count(rest) |-> TRUE]]
        /\ criterion = "strictdom" =>
              \A a, b, c \in Strats(game) :
                  Chain(game, a, b, c) => ~rest[b] /\ ~rest[c]

\* C10: profile-shape violations are raised at construction time: no
\* constructed game holds a profile with a role total different from the
\* role's player count or with a strategy unknown to the role.
C10_ConstructedProfilesAreLegal ==
    gpc = "built" =>
        \A profile \in DOMAIN data :
            \A r \in DOMAIN profile \cap roles :
                /\ Len(profile[r]) = counts[r]
                /\ \A i \in 1..Len(profile[r]) : profile[r][i] \in strategies[r]

----------------------------------------------------------------------------
(* paygame: the payoff game.  Its constructor validates a table of         *)
(* profiles and payoffs; the game is immutable afterwards.                 *)

\* the game of test_nan_mask_for_dev_payoffs
NanMaskGame ==
    [players |-> <<3>>, strats |-> <<4>>,
     profiles |-> <<<<3, 0, 0, 0>>, <<2, 1, 0, 0>>, <<2, 0, 1, 0>>>>,
     payoffs |-> <<<<1, 0, 0, 0>>, <<NaN, 2, 0, 0>>, <<5, 0, NaN, 0>>>>]

\* the payoff games the calls are made on
PayGames ==
    GamesOf(<<2>>, <<2>>, MaxHoles + 3)
      \cup GamesOf(<<1, 1>>, <<1, 2>>, MaxHoles + 3)
      \cup GamesOf(<<1, 1>>, <<2, 2>>, MaxHoles)
      \cup GamesOf(<<2>>, <<3>>, MaxHoles - 1)
      \cup {NanMaskGame}

\* a[i] := v, a[p][i] := v
SetAt(a, i, v) == [k \in 1..Len(a) |-> IF k = i THEN v ELSE a[k]]
SetAt2(a, p, i, v) == SetAt(a, p, SetAt(a[p], i, v))

\* the table of g with one violation put in
Defects(g) ==
    LET P == 1..Len(g.profiles)
        S == 1..SumSeq(g.strats)
        with(profs, pays) == [players |-> g.players, strats |-> g.strats,
                              profiles |-> profs, payoffs |-> pays]
    IN  \* a payoff, or NaN, where the count is 0
        UNION {{with(g.profiles, SetAt2(g.payoffs, p, i, v)) :
                    i \in {j \in S : g.profiles[p][j] = 0}, v \in {1, NaN}} :
                 p \in P}
        \* a profile stored twice
        \cup {with(Append(g.profiles, g.profiles[p]),
                   Append(g.payoffs, g.payoffs[p])) : p \in P}
        \* a role with a player too many; a negative count
        \cup {with(SetAt2(g.profiles, p, i, g.profiles[p][i] + 1), g.payoffs) :
                p \in P, i \in S}
        \cup {with(SetAt2(g.profiles, p, i, -1), g.payoffs) : p \in P, i \in S}
        \* NaN on the whole support
        \cup {with(g.profiles,
                   SetAt(g.payoffs, p, [i \in S |->
                       IF g.profiles[p][i] > 0 THEN NaN ELSE 0])) : p \in P}
        \* fewer payoff rows than profiles
        \cup (IF P = {} THEN {} ELSE {with(g.profiles, AllButLast(g.payoffs))})

\* the tables handed to paygame.game: the valid ones, and those of the
\* small schemas with a violation
PayInputs ==
    PayGames
      \cup UNION {Defects(g) : g \in GamesOf(<<2>>, <<2>>, MaxHoles + 3)
                                   \cup GamesOf(<<1, 1>>, <<1, 2>>, MaxHoles + 3)
                                   \cup {NanMaskGame}}

\* np.add.reduceat(a, role_starts): the sum of a over each role
role_sums(a, strats) ==
    [r \in 1..Len(strats) |->
        SumSeq(SubSeq(a, role_starts(strats)[r] + 1,
                      role_starts(strats)[r] + strats[r]))]

\* the check of the payoffs against the supports, without which a table is
\* rejected: payoffs are 0 wherever the count is 0
zero_unsupported_unchecked(profiles, payoffs) == TRUE
zero_unsupported(profiles, payoffs) ==
    \A p \in 1..Len(profiles) : \A i \in 1..Len(profiles[p]) :
        profiles[p][i] = 0 => payoffs[p][i] = 0

\* the assertions of paygame.game on a table
game_valid(players, strats, profiles, payoffs) ==
    /\ Len(profiles) = Len(payoffs)
    /\ \A p \in 1..Len(profiles) :
          /\ Len(profiles[p]) = SumSeq(strats)
          /\ Len(payoffs[p]) = SumSeq(strats)
          /\ \A i \in 1..Len(profiles[p]) : profiles[p][i] >= 0
          /\ role_sums(profiles[p], strats) = players
          /\ \E i \in 1..Len(profiles[p]) :
                profiles[p][i] > 0 /\ ~IsNaN(payoffs[p][i])
    /\ zero_unsupported(profiles, payoffs)
    /\ \A p, q \in 1..Len(profiles) : profiles[p] = profiles[q] => p = q

\* paygame.game(players, strats, profiles, payoffs)
paygame_game(inp) ==
    IF game_valid(inp.players, inp.strats, inp.profiles, inp.payoffs)
    THEN [raises |-> "none", value |-> inp]
    ELSE [raises |-> "AssertionError", value |-> <<>>]

PayGame ==
    /\ pc = "new"
    /\ \E inp \in PayInputs :
         LET r == paygame_game(inp)
         IN /\ call' = [op |-> "game", args |-> inp]
            /\ result' = r
            /\ pc' = IF r.raises = "none" THEN "built" ELSE "error"
            /\ game' = IF r.raises = "none" THEN r.value ELSE game
    /\ UNCHANGED <<criterion, conditional, ret, rest, mask, gains, supports,
                   num_strats, iters, gamevars, sgame, self>>

\* what a call on the built game leaves alone
CallFrame ==
    UNCHANGED <<game, criterion, conditional, ret, rest, mask, gains, supports,
                num_strats, iters, gamevars, sgame, self>>

\* the restriction masks: at least one strategy of every role
Masks(strats) ==
    {m \in [1..SumSeq(strats) -> BOOLEAN] :
        \A r \in 1..Len(strats) :
            \E i \in 1..SumSeq(strats) :
                /\ m[i]
                /\ role_starts(strats)[r] < i
                /\ i <= role_starts(strats)[r] + strats[r]}

\* game.restrict(mask)
RestrictGame ==
    /\ pc = "built"
    /\ \E m \in Masks(game.strats) :
         /\ call' = [op |-> "restrict", args |-> m]
         /\ result' = [raises |-> "none", value |-> Restrict(game, m)]
    /\ pc' = "called"
    /\ CallFrame

\* exact fractions <<numerator, denominator>> in lowest terms stand for the
\* floats of the mixture calls; the denominator 0 marks NaN
RECURSIVE GCD(_, _)
GCD(a, b) == IF b = 0 THEN a ELSE GCD(b, a % b)
Abs(n) == IF n < 0 THEN -n ELSE n
Frac(n, d) == LET k == GCD(Abs(n), d) IN <<n \div k, d \div k>>
FracNaN == <<0, 0>>
IsFracNaN(x) == x[2] = 0
\* a stored payoff as a fraction
ToFrac(x) == IF IsNaN(x) THEN FracNaN ELSE <<x, 1>>
FracAdd(x, y) ==
    IF IsFracNaN(x) \/ IsFracNaN(y) THEN FracNaN
    ELSE Frac(x[1] * y[2] + y[1] * x[2], x[2] * y[2])
FracMul(x, y) ==
    IF IsFracNaN(x) \/ IsFracNaN(y) THEN FracNaN
    ELSE Frac(x[1] * y[1], x[2] * y[2])
FracGt(x, y) ==
    ~IsFracNaN(x) /\ ~IsFracNaN(y) /\ x[1] * y[2] > y[1] * x[2]

RECURSIVE Factorial(_)
Factorial(n) == IF n = 0 THEN 1 ELSE n * Factorial(n - 1)
RECURSIVE Pow(_, _)
Pow(b, e) == IF e = 0 THEN 1 ELSE b * Pow(b, e - 1)
RECURSIVE Product(_)
Product(a) == IF a = <<>> THEN 1 ELSE Head(a) * Product(Tail(a))

\* the mixtures of a schema, as numerators over MixDen
Mixtures(strats) == AllProfiles([r \in 1..Len(strats) |-> MixDen], strats)

\* the number of orderings of the players of counts o, role by role (the
\* exponential of dev_reps)
orderings(o, strats) ==
    Product([r \in 1..Len(strats) |->
        Factorial(role_sums(o, strats)[r])]) \div
    Product([i \in 1..Len(o) |-> Factorial(o[i])])

\* the probability, times MixDen ^ (number of other players), that the
\* other players play o when each draws from mix
dev_prob(o, strats, mix) ==
    orderings(o, strats) * Product([i \in 1..Len(o) |-> Pow(mix[i], o[i])])

\* the deviation payoff taking every NaN payoff of the strategy's column
dev_payoff_anynan(g, mix, s) ==
    LET devs == {q \in AllProfiles(g.players, g.strats) : q[s] > 0}
        w(q) == dev_prob([q EXCEPT ![s] = @ - 1], g.strats, mix)
        total == SumSeq([k \in 1..Len(SetToSeq(devs)) |->
                     LET q == SetToSeq(devs)[k]
                     IN w(q) * get_payoffs(g, q)[s]])
    IN IF \E q \in devs : IsNaN(get_payoffs(g, q)[s])
       THEN FracNaN
       ELSE Frac(total, Pow(MixDen, SumSeq(g.players) - 1))

\* the deviation payoff of strategy s: the payoffs to s over the profiles
\* the others play with positive probability, weighted by it; NaN when one
\* of those profiles is absent or holds NaN for s
dev_payoff(g, mix, s) ==
    LET devs == {q \in AllProfiles(g.players, g.strats) : q[s] > 0}
        w(q) == dev_prob([q EXCEPT ![s] = @ - 1], g.strats, mix)
        live == SetToSeq({q \in devs : w(q) > 0})
        total == SumSeq([k \in 1..Len(live) |->
                     w(live[k]) * get_payoffs(g, live[k])[s]])
    IN IF \E k \in 1..Len(live) : IsNaN(get_payoffs(g, live[k])[s])
       THEN FracNaN
       ELSE Frac(total, Pow(MixDen, SumSeq(g.players) - 1))

\* the deviation payoffs of the strategies from s on
RECURSIVE dev_payoffs_from(_, _, _)
dev_payoffs_from(g, mix, s) ==
    IF s > SumSeq(g.strats) THEN <<>>
    ELSE <<dev_payoff(g, mix, s)>> \o dev_payoffs_from(g, mix, s + 1)

\* game.deviation_payoffs(mix)
deviation_payoffs(g, mix) == dev_payoffs_from(g, mix, 1)

DeviationPayoffs ==
    /\ pc = "built"
    /\ \E mix \in Mixtures(game.strats) :
         /\ call' = [op |-> "deviation_payoffs", args |-> mix]
         /\ result' = [raises |-> "none", value |-> deviation_payoffs(game, mix)]
    /\ pc' = "called"
    /\ CallFrame

\* the strategies of role r
role_strats(strats, r) ==
    {i \in 1..SumSeq(strats) :
        role_starts(strats)[r] < i /\ i <= role_starts(strats)[r] + strats[r]}

\* the strategies of role r whose deviation payoff is the role's maximum,
\* NaN left out
arg_max(devs, strats, r) ==
    {s \in role_strats(strats, r) :
        /\ ~IsFracNaN(devs[s])
        /\ \A t \in role_strats(strats, r) : ~FracGt(devs[t], devs[s])}

\* the best-response mass of s giving all of it to the first maximum
best_mass_first(devs, strats, s) ==
    LET r == CHOOSE q \in 1..Len(strats) : s \in role_strats(strats, q)
        best == arg_max(devs, strats, r)
    IN IF best = {} THEN FracNaN
       ELSE IF s \in best /\ \A t \in best : s <= t THEN <<1, 1>>
       ELSE <<0, 1>>

\* the best-response mass of strategy s: an equal share when s is one of
\* the maxima of its role, NaN when its role has no deviation payoff
best_mass(devs, strats, s) ==
    LET r == CHOOSE q \in 1..Len(strats) : s \in role_strats(strats, q)
        best == arg_max(devs, strats, r)
    IN IF best = {} THEN FracNaN
       ELSE IF s \in best THEN Frac(1, Cardinality(best))
       ELSE <<0, 1>>

RECURSIVE best_response_from(_, _, _)
best_response_from(devs, strats, s) ==
    IF s > SumSeq(strats) THEN <<>>
    ELSE <<best_mass(devs, strats, s)>> \o best_response_from(devs, strats, s + 1)

\* game.best_response(mix): per role the uniform distribution over the
\* maxima of the deviation payoffs
best_response(g, mix) ==
    CHOOSE br \in {best_response_from(devs, g.strats, 1) :
                      devs \in {deviation_payoffs(g, mix)}} : TRUE

BestResponse ==
    /\ pc = "built"
    /\ \E mix \in Mixtures(game.strats) :
         /\ call' = [op |-> "best_response", args |-> mix]
         /\ result' = [raises |-> "none", value |-> best_response(game, mix)]
    /\ pc' = "called"
    /\ CallFrame

\* the rows of the payoff table that hold no NaN
complete_rows(g) ==
    {p \in 1..Len(g.payoffs) :
        \A i \in 1..Len(g.payoffs[p]) : ~IsNaN(g.payoffs[p][i])}

\* game.num_complete_profiles
num_complete_profiles(g) == Cardinality(complete_rows(g))

\* membership by the stored profiles alone
contains_stored(g, prof) ==
    \E p \in 1..Len(g.profiles) : g.profiles[p] = prof

\* prof in game: prof is one of the complete profiles
contains(g, prof) ==
    \E p \in complete_rows(g) : g.profiles[p] = prof

Contains ==
    /\ pc = "built"
    /\ \E prof \in AllProfiles(game.players, game.strats) :
         /\ call' = [op |-> "contains", args |-> prof]
         /\ result' = [raises |-> "none", value |-> contains(game, prof)]
    /\ pc' = "called"
    /\ CallFrame

----------------------------------------------------------------------------
(* paygame: the sample game.  A block holds the profiles that share a      *)
(* number of observations: samples[p] is the sequence of the observation   *)
(* vectors of profiles[p].                                                 *)

\* the observation sequences of every choice of stored profiles, at most
\* deep of them with more than one observation
RECURSIVE SampleTables(_, _)
SampleTables(profs, deep) ==
    IF profs = <<>> THEN {<<>>}
    ELSE SampleTables(Tail(profs), deep)
         \cup {<<[profile |-> Head(profs), obs |-> o]>> \o t :
                 o \in [1..1 -> PayoffRows(Head(profs), 0)],
                 t \in SampleTables(Tail(profs), deep)}
         \cup (IF deep = 0 THEN {} ELSE
               UNION {{<<[profile |-> Head(profs), obs |-> o]>> \o t :
                          o \in [1..k -> PayoffRows(Head(profs), 0)],
                          t \in SampleTables(Tail(profs), deep - 1)} :
                        k \in 2..MaxObs})

\* the blocks of a table, from k observations on
RECURSIVE blocks_from(_, _)
blocks_from(table, k) ==
    IF k > MaxObs THEN <<>>
    ELSE LET sel == SelectSeq(table, LAMBDA e : Len(e.obs) = k)
             block == [profiles |-> [i \in 1..Len(sel) |-> sel[i].profile],
                       samples |-> [i \in 1..Len(sel) |-> sel[i].obs]]
         IN (IF sel = <<>> THEN <<>> ELSE <<block>>) \o blocks_from(table, k + 1)

SampleGamesOf(players, strats) ==
    {[players |-> players, strats |-> strats, blocks |-> blocks_from(t, 1)] :
        t \in SampleTables(SetToSeq(AllProfiles(players, strats)), MaxDeep)}

\* the sample games the calls are made on
SampleGames ==
    SampleGamesOf(<<2>>, <<2>>) \cup SampleGamesOf(<<1, 1>>, <<1, 2>>)

\* paygame.samplegame(players, strats, profiles, sample_payoffs)
SampleGame ==
    /\ pc = "new"
    /\ \E sg \in SampleGames :
         /\ sgame' = sg
         /\ call' = [op |-> "samplegame", args |-> sg]
    /\ result' = [raises |-> "none", value |-> <<>>]
    /\ pc' = "sbuilt"
    /\ UNCHANGED <<game, criterion, conditional, ret, rest, mask, gains,
                   supports, num_strats, iters, gamevars, self>>

\* the sequences of a sequence of sequences joined
RECURSIVE Concat(_)
Concat(a) == IF a = <<>> THEN <<>> ELSE Head(a) \o Concat(Tail(a))

\* the profiles of a sample game, block after block
sample_profiles(sg) ==
    Concat([b \in 1..Len(sg.blocks) |-> sg.blocks[b].profiles])

\* game_copy(sgame): the payoff game of the means of the observations
game_copy(sg) ==
    [players |-> sg.players, strats |-> sg.strats,
     profiles |-> sample_profiles(sg),
     payoffs |-> Concat([b \in 1..Len(sg.blocks) |->
        LET obs == sg.blocks[b].samples
        IN [p \in 1..Len(obs) |-> [i \in 1..SumSeq(sg.strats) |->
              Frac(SumSeq([k \in 1..Len(obs[p]) |-> obs[p][k][i]]),
                   Len(obs[p]))]]])]

\* what shares one vector of drawn indices: the block, and with it the
\* profile, the role and the strategy when each is drawn independently
draw_key(sg, flags, p, i) ==
    <<IF flags.independent_profile THEN p ELSE 0,
      IF flags.independent_role THEN RoleOf(sg, i) ELSE 0,
      IF flags.independent_strategy THEN i ELSE 0>>

\* the draws of resample: per block and key, n indices into the block's
\* observations, n being the block's number of observations when
\* num_resamples is not given (0 here)
Draws(sg, n, flags) ==
    [b \in 1..Len(sg.blocks) |->
        LET depth == Len(sg.blocks[b].samples[1])
            keys == {draw_key(sg, flags, p, i) :
                        p \in 1..Len(sg.blocks[b].profiles),
                        i \in 1..SumSeq(sg.strats)}
        IN [keys -> [1..(IF n = 0 THEN depth ELSE n) -> 1..depth]]]

\* resample adding up the drawn observations
resample_sum(sg, flags, draws) ==
    [players |-> sg.players, strats |-> sg.strats,
     profiles |-> sample_profiles(sg),
     payoffs |-> Concat([b \in 1..Len(sg.blocks) |->
        LET obs == sg.blocks[b].samples
        IN [p \in 1..Len(obs) |-> [i \in 1..SumSeq(sg.strats) |->
              LET inds == draws[b][draw_key(sg, flags, p, i)]
              IN Frac(SumSeq([k \in 1..Len(inds) |-> obs[p][inds[k]][i]]),
                      1)]]])]

\* sgame.resample(num_resamples, independent_profile, independent_role,
\* independent_strategy) under the given draws: the payoff game of the
\* means of the drawn observations
resample(sg, flags, draws) ==
    [players |-> sg.players, strats |-> sg.strats,
     profiles |-> sample_profiles(sg),
     payoffs |-> Concat([b \in 1..Len(sg.blocks) |->
        LET obs == sg.blocks[b].samples
        IN [p \in 1..Len(obs) |-> [i \in 1..SumSeq(sg.strats) |->
              LET inds == draws[b][draw_key(sg, flags, p, i)]
              IN Frac(SumSeq([k \in 1..Len(inds) |-> obs[p][inds[k]][i]]),
                      Len(inds))]]])]

\* a choice of one element of every set of a sequence of sets
RECURSIVE Choices(_)
Choices(sets) ==
    IF sets = <<>> THEN {<<>>}
    ELSE {<<x>> \o c : x \in Head(sets), c \in Choices(Tail(sets))}

Resample ==
    /\ pc = "sbuilt"
    /\ \E n \in 0..MaxResamples :
       \E flags \in [independent_profile : BOOLEAN, independent_role : BOOLEAN,
                     independent_strategy : BOOLEAN] :
       \E draws \in Choices(Draws(sgame, n, flags)) :
         /\ call' = [op |-> "resample", args |-> [num_resamples |-> n,
                                                  flags |-> flags]]
         /\ result' = [raises |-> "none",
                       value |-> resample(sgame, flags, draws)]
    /\ pc' = "scalled"
    /\ CallFrame

\* sgame.restrict(mask): every block keeps the profiles whose support lies
\* in the mask, profiles and observations cut to its columns; a block left
\* without profiles is dropped
RECURSIVE restrict_blocks(_, _)
restrict_blocks(blocks, m) ==
    IF blocks = <<>> THEN <<>>
    ELSE LET blk == Head(blocks)
             keep == [p \in 1..Len(blk.profiles) |->
                        \A i \in 1..Len(m) : blk.profiles[p][i] > 0 => m[i]]
             profs == Compress(blk.profiles, keep)
             obs == Compress(blk.samples, keep)
             cut == [profiles |-> [p \in 1..Len(profs) |-> Compress(profs[p], m)],
                     samples |-> [p \in 1..Len(obs) |->
                         [k \in 1..Len(obs[p]) |-> Compress(obs[p][k], m)]]]
         IN (IF profs = <<>> THEN <<>> ELSE <<cut>>)
                \o restrict_blocks(Tail(blocks), m)

sample_restrict(sg, m) ==
    [players |-> sg.players,
     strats |-> [r \in 1..Len(sg.strats) |->
                   Cardinality({i \in role_strats(sg.strats, r) : m[i]})],
     blocks |-> restrict_blocks(sg.blocks, m)]

SampleRestrict ==
    /\ pc = "sbuilt"
    /\ \E m \in Masks(sgame.strats) :
         /\ call' = [op |-> "sample_restrict", args |-> m]
         /\ result' = [raises |-> "none", value |-> sample_restrict(sgame, m)]
    /\ pc' = "scalled"
    /\ CallFrame

\* the permutations of 1..n, and a sequence rearranged by one
Perms(n) == {f \in [1..n -> 1..n] : \A i, j \in 1..n : f[i] = f[j] => i = j}
Permute(a, f) == [i \in 1..Len(a) |-> a[f[i]]]

\* the multiset of the elements of a sequence
BagOf(a) ==
    [x \in {a[k] : k \in 1..Len(a)} |-> Cardinality({k \in 1..Len(a) : a[k] = x})]

\* the profiles of a sample game with their observations, blocks and
\* orders forgotten
sample_canon(sg) ==
    UNION {{<<sg.blocks[b].profiles[p], BagOf(sg.blocks[b].samples[p])>> :
                p \in 1..Len(sg.blocks[b].profiles)} :
             b \in 1..Len(sg.blocks)}

\* sample games compared block by block as they were given
samplegame_eq_given(a, b) == a = b

\* a == b for sample games
samplegame_eq(a, b) ==
    /\ a.players = b.players
    /\ a.strats = b.strats
    /\ sample_canon(a) = sample_canon(b)

\* hash(sgame): of the schema and the profiles
samplegame_hash(sg) ==
    <<sg.players, sg.strats,
      {sample_profiles(sg)[p] : p \in 1..Len(sample_profiles(sg))}>>

\* a block with its profiles, and the observations of each, rearranged
RearrangedBlock(blk) ==
    {[profiles |-> Permute(blk.profiles, f),
      samples |-> [i \in 1..Len(blk.profiles) |->
                      Permute(blk.samples[f[i]], h[i])]] :
        f \in Perms(Len(blk.profiles)),
        h \in [1..Len(blk.profiles) -> Perms(Len(blk.samples[1]))]}

\* the sample games that give the same observations of the same profiles
\* in another order of blocks, of profiles, of observations
Rearranged(sg) ==
    {[sg EXCEPT !.blocks = Permute(c, f)] :
        c \in Choices([b \in 1..Len(sg.blocks) |-> RearrangedBlock(sg.blocks[b])]),
        f \in Perms(Len(sg.blocks))}

\* a == b and hash(a) == hash(b) for sgame and a sample game that is sgame
\* rearranged, or sgame without its last block
SampleEq ==
    /\ pc = "sbuilt"
    /\ \E b \in Rearranged(sgame)
                 \cup (IF sgame.blocks = <<>> THEN {}
                       ELSE {[sgame EXCEPT !.blocks = AllButLast(@)]}) :
         /\ call' = [op |-> "sample_eq", args |-> b]
         /\ result' = [raises |-> "none",
                       value |-> [eq |-> samplegame_eq(sgame, b),
                                  hash_eq |-> samplegame_hash(sgame)
                                                = samplegame_hash(b)]]
    /\ pc' = "scalled"
    /\ CallFrame

\* payoff games compared row by row as they were given
game_eq_given(a, b) == a = b

\* a == b for payoff games
game_eq(a, b) ==
    /\ a.players = b.players
    /\ a.strats = b.strats
    /\ {<<a.profiles[p], a.payoffs[p]>> : p \in 1..Len(a.profiles)}
         = {<<b.profiles[p], b.payoffs[p]>> : p \in 1..Len(b.profiles)}

\* hash(game): of the schema and the profiles
game_hash(g) ==
    <<g.players, g.strats, {g.profiles[p] : p \in 1..Len(g.profiles)}>>

\* g with rows i and j of its table exchanged
swap_rows(g, i, j) ==
    LET f == [k \in 1..Len(g.profiles) |->
                 IF k = i THEN j ELSE IF k = j THEN i ELSE k]
    IN [g EXCEPT !.profiles = Permute(g.profiles, f),
                 !.payoffs = Permute(g.payoffs, f)]

\* a == b and hash(a) == hash(b) for game and a payoff game that is game
\* with two rows exchanged, or game without its last row
GameEq ==
    /\ pc = "built"
    /\ \E b \in {swap_rows(game, i, j) : i, j \in 1..Len(game.profiles)}
                 \cup (IF game.profiles = <<>> THEN {game}
                       ELSE {[game EXCEPT !.profiles = AllButLast(@),
                                          !.payoffs = AllButLast(@)]}) :
         /\ call' = [op |-> "eq", args |-> b]
         /\ result' = [raises |-> "none",
                       value |-> [eq |-> game_eq(game, b),
                                  hash_eq |-> game_hash(game) = game_hash(b)]]
    /\ pc' = "called"
    /\ CallFrame

InitPay ==
    /\ pc = "new"
    /\ game = <<>>
    /\ criterion = "none"
    /\ conditional = FALSE
    /\ ret = <<>>
    /\ rest = <<>>
    /\ mask = <<>>
    /\ gains = <<>>
    /\ supports = <<>>
    /\ num_strats = <<>>
    /\ iters = 0
    /\ InitGame
    /\ InitCall

NextPay == PayGame \/ RestrictGame \/ DeviationPayoffs \/ BestResponse
             \/ Contains \/ GameEq \/ SampleGame \/ Resample
             \/ SampleRestrict \/ SampleEq

SpecPay == InitPay /\ [][NextPay]_vars

----------------------------------------------------------------------------
(* RoleSymmetricGame.py: the queries on a Game.  A game object is a record *)
(* of its roles, counts, strategies and of payoffs, the dict from Profiles *)
(* to payoff dicts (role -> strategy -> number).  A Profile is a function  *)
(* from roles to SymmetricProfiles, sorted tuples of strategies.           *)

\* the order of the strategy names under sorted()
rank(strat) ==
    CHOOSE i \in 1..4 : <<"a", "b", "c", "d">>[i] = strat

\* sorted(strategies) of a list of strategy names
RECURSIVE sorted(_)
sorted(l) ==
    IF l = <<>> THEN <<>>
    ELSE LET i == CHOOSE k \in 1..Len(l) :
                     \A j \in 1..Len(l) : rank(l[k]) <= rank(l[j])
         IN <<l[i]>> \o sorted(SubSeq(l, 1, i - 1) \o SubSeq(l, i + 1, Len(l)))

\* SymmetricProfile.getStrategies: without repetitions
getStrategies(sp) == {sp[i] : i \in 1..Len(sp)}

\* tuple.count
count(sp, strat) == Cardinality({i \in 1..Len(sp) : sp[i] = strat})

\* itertools.combinations_with_replacement(strats, n), as SymmetricProfiles
CwR(strats, n) ==
    {t \in [1..n -> strats] :
        \A i, j \in 1..n : i <= j => rank(t[i]) <= rank(t[j])}

\* Game.allProfiles
allProfiles(g) ==
    {prof \in [g.roles -> UNION {CwR(g.strategies[r], g.counts[r]) : r \in g.roles}] :
        \A r \in g.roles : prof[r] \in CwR(g.strategies[r], g.counts[r])}

\* Game.isValidProfile on the game object g
isValidProfileOf(g, profile) ==
    \/ profile \in DOMAIN g.payoffs
    \/ \A r \in DOMAIN profile :
          /\ r \in g.roles
          /\ Len(profile[r]) = g.counts[r]
          /\ \A strat \in getStrategies(profile[r]) : strat \in g.strategies[r]

\* the payoff dicts a profile may carry: a number for every strategy played
PayoffDicts(g, prof) ==
    {d \in [g.roles -> UNION {[getStrategies(prof[r]) -> 0..MaxPay] : r \in g.roles}] :
        \A r \in g.roles : DOMAIN d[r] = getStrategies(prof[r])}

\* the games over a schema: payoff data for any of its profiles
RSGamesOf(schema) ==
    {[schema EXCEPT !.payoffs = d] :
        d \in UNION {{f \in [S -> UNION {PayoffDicts(schema, prof) : prof \in S}] :
                         \A prof \in S : f[prof] \in PayoffDicts(schema, prof)} :
                      S \in SUBSET allProfiles(schema)}}

\* the games the queries are made on: two roles of one player and one role
\* of two players, two strategies each
RSGames ==
    RSGamesOf([roles |-> {"R1", "R2"},
               counts |-> [r \in {"R1", "R2"} |-> 1],
               strategies |-> [r \in {"R1", "R2"} |->
                                  IF r = "R1" THEN {"a", "b"} ELSE {"c", "d"}],
               payoffs |-> <<>>])
      \cup RSGamesOf([roles |-> {"R1"},
                      counts |-> [r \in {"R1"} |-> 2],
                      strategies |-> [r \in {"R1"} |-> {"a", "b"}],
                      payoffs |-> <<>>])

\* Game.getPayoff(profile, role, strategy) for a pure profile and strategy,
\* lines 287-293: the lookup, its KeyError raised again
getPayoff(g, profile, role, strategy) ==
    IF /\ profile \in DOMAIN g.payoffs
       /\ role \in DOMAIN g.payoffs[profile]
       /\ strategy \in DOMAIN g.payoffs[profile][role]
    THEN [raises |-> "none", value |-> g.payoffs[profile][role][strategy]]
    ELSE [raises |-> "KeyError", value |-> 0]

\* Game.deviations(profile, role, strategy): the pairs (s, p) of a strategy
\* of the role other than strategy and the profile with one player moved
deviations(g, profile, role, strategy) ==
    {<<strat,
       [profile EXCEPT ![role] =
           LET i == CHOOSE k \in 1..Len(profile[role]) :
                        profile[role][k] = strategy
           IN sorted(SubSeq(profile[role], 1, i - 1)
                       \o SubSeq(profile[role], i + 1, Len(profile[role]))
                       \o <<strat>>)]>> :
        strat \in g.strategies[role] \ {strategy}}

\* the passes of the loops of Game.regret: role, strategy played, deviation
regret_steps(g, profile) ==
    SetToSeq(UNION {UNION {{<<role, strategy, dev>> :
                               dev \in deviations(g, profile, role, strategy)} :
                             strategy \in getStrategies(profile[role])} :
                      role \in DOMAIN profile})

\* the rest of the loops of Game.regret, lines 324-331
RECURSIVE regret_loop(_, _, _, _)
regret_loop(g, profile, steps, regret) ==
    IF steps = <<>> THEN regret
    ELSE LET role == Head(steps)[1]
             payoff == getPayoff(g, profile, role, Head(steps)[2]).value
             dev_strat == Head(steps)[3][1]
             dev_prof == Head(steps)[3][2]
             r == getPayoff(g, dev_prof, role, dev_strat).value - payoff
         IN regret_loop(g, profile, Tail(steps),
                        IF r > regret THEN r ELSE regret)

\* a getPayoff of Game.regret raises KeyError
regret_raises(g, profile) ==
    \/ \E role \in DOMAIN profile : \E strategy \in getStrategies(profile[role]) :
          getPayoff(g, profile, role, strategy).raises # "none"
    \/ \E k \in 1..Len(regret_steps(g, profile)) :
          LET step == regret_steps(g, profile)[k]
          IN getPayoff(g, step[3][2], step[1], step[3][1]).raises # "none"

\* Game.regret starting below every payoff difference
regret_unfloored(g, profile) ==
    IF regret_raises(g, profile)
    THEN [raises |-> "KeyError", value |-> 0]
    ELSE [raises |-> "none",
          value |-> regret_loop(g, profile, regret_steps(g, profile),
                                -(MaxPay + 1))]

\* Game.regret(profile), lines 322-332
regret(g, profile) ==
    IF regret_raises(g, profile)
    THEN [raises |-> "KeyError", value |-> 0]
    ELSE [raises |-> "none",
          value |-> regret_loop(g, profile, regret_steps(g, profile), 0)]

\* Profile.add(role, strategy), Profile.remove(role, strategy)
add(profile, role, strategy) ==
    [profile EXCEPT ![role] = sorted(@ \o <<strategy>>)]
remove(profile, role, strategy) ==
    [profile EXCEPT ![role] =
        LET i == CHOOSE k \in 1..Len(@) : @[k] = strategy
        IN SubSeq(@, 1, i - 1) \o SubSeq(@, i + 1, Len(@))]

\* the loop of Game.BR over the strategies still to try, lines 352-362
RECURSIVE BR_loop(_, _, _, _, _, _)
BR_loop(g, role, opponent_profile, todo, best_responses, best_payoff) ==
    IF todo = <<>> THEN best_responses
    ELSE LET strategy == Head(todo)
             got == getPayoff(g, add(opponent_profile, role, strategy),
                              role, strategy)
         IN IF got.raises # "none"
            THEN BR_loop(g, role, opponent_profile, Tail(todo),
                         best_responses, best_payoff)
            ELSE IF got.value > best_payoff
            THEN BR_loop(g, role, opponent_profile, Tail(todo),
                         <<strategy>>, got.value)
            ELSE IF got.value = best_payoff
            THEN BR_loop(g, role, opponent_profile, Tail(todo),
                         Append(best_responses, strategy), best_payoff)
            ELSE BR_loop(g, role, opponent_profile, Tail(todo),
                         best_responses, best_payoff)

\* Game.BR(role, opponent_profile), lines 349-363; -inf is below every payoff
BR(g, role, opponent_profile) ==
    BR_loop(g, role, opponent_profile,
            sorted(SetToSeq(g.strategies[role])), <<>>, -1)


\* float division
FracDiv(x, y) ==
    IF IsFracNaN(x) \/ IsFracNaN(y) \/ y[1] = 0 THEN FracNaN
    ELSE Frac(x[1] * y[2] * (IF y[1] < 0 THEN -1 ELSE 1), x[2] * Abs(y[1]))

\* the mixtures over a set of strategies: mixture(strategies, probabilities)
\* normalises the probabilities, here numerators over MixDen
RECURSIVE sum_over(_, _)
sum_over(m, todo) ==
    IF todo = {} THEN 0
    ELSE LET x == CHOOSE y \in todo : TRUE IN m[x] + sum_over(m, todo \ {x})
mixture(strats) ==
    {m \in [strats -> 0..MixDen] : sum_over(m, strats) = MixDen}

\* the role-symmetric mixed strategy profiles of a game: for every role
\* counts[role] times one mixture, as uniformMixedProfile and
\* biasedMixedProfile build them; kept as the mixture of every role
MixedProfiles(g) ==
    {rsmsp \in [g.roles -> UNION {mixture(g.strategies[r]) : r \in g.roles}] :
        \A r \in g.roles : rsmsp[r] \in mixture(g.strategies[r])}

\* reduce(mul, [self[i][s] for i, s in enumerate(p)]), every self[i] the
\* mixture m
RECURSIVE reduce_mul(_, _)
reduce_mul(m, p) ==
    IF Len(p) = 0 THEN <<1, 1>>
    ELSE FracMul(Frac(m[p[1]], MixDen),
                 reduce_mul(m, [i \in 1..(Len(p) - 1) |-> p[i + 1]]))

\* reduce(add, ...) over the tuple of the products
RECURSIVE reduce_add(_, _, _)
reduce_add(m, ps, k) ==
    IF k > Len(ps) THEN <<0, 1>>
    ELSE FracAdd(reduce_mul(m, ps[k]), reduce_add(m, ps, k + 1))

\* SymmetricProfile.probability(profile), lines 47-53: the sum over the
\* distinct orderings of the profile
SymmetricProfile_probability(m, profile) ==
    reduce_add(m, SetToSeq({Permute(profile, f) : f \in Perms(Len(profile))}), 1)

\* Profile.probability(profile), lines 101-104
RECURSIVE Profile_probability(_, _, _)
Profile_probability(rsmsp, profile, todo) ==
    IF todo = {} THEN <<1, 1>>
    ELSE LET r == CHOOSE x \in todo : TRUE
         IN FracMul(SymmetricProfile_probability(rsmsp[r], profile[r]),
                    Profile_probability(rsmsp, profile, todo \ {r}))

\* the two inner loops of Game.expectedValues on one profile, lines 403-406
RECURSIVE expectedValues_profile(_, _, _, _, _, _)
expectedValues_profile(g, rsmsp, profile, prob, todo, values) ==
    IF todo = <<>> THEN values
    ELSE LET role == Head(todo)[1]
             strategy == Head(todo)[2]
             term == FracDiv(
                        FracMul(
                           FracDiv(
                              FracMul(<<g.payoffs[profile][role][strategy], 1>>,
                                      prob),
                              Frac(rsmsp[role][strategy], MixDen)),
                           <<count(profile[role], strategy), 1>>),
                        <<g.counts[role], 1>>)
         IN expectedValues_profile(g, rsmsp, profile, prob, Tail(todo),
               [values EXCEPT ![role][strategy] = FracAdd(@, term)])

\* the loop of Game.expectedValues over the profiles of the game
RECURSIVE expectedValues_loop(_, _, _, _)
expectedValues_loop(g, rsmsp, profiles, values) ==
    IF profiles = <<>> THEN values
    ELSE LET profile == Head(profiles)
             prob == Profile_probability(rsmsp, profile, DOMAIN rsmsp)
         IN IF prob = <<0, 1>>
            THEN expectedValues_loop(g, rsmsp, Tail(profiles), values)
            ELSE expectedValues_loop(g, rsmsp, Tail(profiles),
                    expectedValues_profile(g, rsmsp, profile, prob,
                       SetToSeq(UNION {{<<role, strategy>> :
                                           strategy \in getStrategies(profile[role])} :
                                         role \in g.roles}),
                       values))

\* Game.expectedValues(rsmsp), lines 383-407
expectedValues(g, rsmsp) ==
    expectedValues_loop(g, rsmsp, SetToSeq(DOMAIN g.payoffs),
        [r \in g.roles |-> [strat \in g.strategies[r] |-> <<0, 1>>]])

\* Game.__init__(roles, counts, strategies) as subgame calls it, lines
\* 197-207: KeyError when counts or strategies lacks one of the roles
Game_init(sub_roles, sub_counts, sub_strategies) ==
    IF \E r \in sub_roles : r \notin DOMAIN sub_counts \/ r \notin DOMAIN sub_strategies
    THEN [raises |-> "KeyError", value |-> <<>>]
    ELSE [raises |-> "none",
          value |-> [roles |-> sub_roles,
                     counts |-> [r \in sub_roles |-> sub_counts[r]],
                     strategies |-> [r \in sub_roles |-> sub_strategies[r]],
                     payoffs |-> <<>>]]

\* Game.subgame copying only the profiles the game knows
subgame_known(g, sub_roles, sub_strategies) ==
    LET made == Game_init(IF sub_roles = {} THEN g.roles ELSE sub_roles, g.counts,
                          IF sub_strategies = <<>>
                          THEN [r \in g.roles |-> {}] ELSE sub_strategies)
    IN IF made.raises # "none" THEN made
       ELSE [raises |-> "none",
             value |-> [made.value EXCEPT !.payoffs =
                           [p \in allProfiles(made.value) \cap DOMAIN g.payoffs
                               |-> g.payoffs[p]]]]

\* Game.subgame(roles, strategies), lines 251-264; sub_roles = {} and
\* sub_strategies = <<>> are the defaults
subgame(g, sub_roles, sub_strategies) ==
    LET made == Game_init(IF sub_roles = {} THEN g.roles ELSE sub_roles, g.counts,
                          IF sub_strategies = <<>>
                          THEN [r \in g.roles |-> {}] ELSE sub_strategies)
    IN IF made.raises # "none" THEN made
       ELSE IF \E p \in allProfiles(made.value) : p \notin DOMAIN g.payoffs
       THEN [raises |-> "KeyError", value |-> <<>>]
       ELSE IF \E p \in allProfiles(made.value) : ~isValidProfileOf(made.value, p)
       THEN [raises |-> "AssertionError", value |-> <<>>]
       ELSE [raises |-> "none",
             value |-> [made.value EXCEPT !.payoffs =
                           [p \in allProfiles(made.value) |-> g.payoffs[p]]]]

\* what a query leaves alone: everything but the call and its result
QueryFrame ==
    UNCHANGED <<game, criterion, conditional, ret, rest, mask, gains, supports,
                num_strats, iters, gamevars, sgame, self>>

\* game.regret(profile) for a profile of the game's schema
Regret ==
    /\ pc = "idle"
    /\ \E profile \in allProfiles(self) :
         /\ call' = [op |-> "regret", args |-> profile]
         /\ result' = regret(self, profile)
    /\ pc' = "ret"
    /\ QueryFrame

\* game.BR(role, opponent_profile): the profile of the others, one player
\* of the role taken out of a profile of the schema
BestResponses ==
    /\ pc = "idle"
    /\ \E profile \in allProfiles(self) : \E role \in self.roles :
         \E strategy \in getStrategies(profile[role]) :
            /\ call' = [op |-> "BR",
                        args |-> [role |-> role,
                                  opponent_profile |->
                                      remove(profile, role, strategy)]]
            /\ result' = [raises |-> "none",
                          value |-> BR(self, role,
                                       remove(profile, role, strategy))]
    /\ pc' = "ret"
    /\ QueryFrame

\* game.expectedValues(rsmsp)
ExpectedValues ==
    /\ pc = "idle"
    /\ \E rsmsp \in MixedProfiles(self) :
         /\ call' = [op |-> "expectedValues", args |-> rsmsp]
         /\ result' = [raises |-> "none", value |-> expectedValues(self, rsmsp)]
    /\ pc' = "ret"
    /\ QueryFrame

\* game.subgame(roles, strategies): the defaults, or some of the sub_roles and
\* some of the sub_strategies of every role
Subgame ==
    /\ pc = "idle"
    /\ \E sub_roles \in SUBSET self.roles :
         \E sub_strategies \in {<<>>} \cup
               {st \in [self.roles -> SUBSET UNION {self.strategies[r] : r \in self.roles}] :
                   \A r \in self.roles : st[r] \subseteq self.strategies[r]} :
            /\ call' = [op |-> "subgame",
                        args |-> [roles |-> sub_roles, strategies |-> sub_strategies]]
            /\ result' = subgame(self, sub_roles, sub_strategies)
    /\ pc' = "ret"
    /\ QueryFrame

InitQuery ==
    /\ pc = "idle"
    /\ game = <<>>
    /\ criterion = "none"
    /\ conditional = FALSE
    /\ ret = <<>>
    /\ rest = <<>>
    /\ mask = <<>>
    /\ gains = <<>>
    /\ supports = <<>>
    /\ num_strats = <<>>
    /\ iters = 0
    /\ InitGame
    /\ sgame = <<>>
    /\ self \in RSGames
    /\ call = [op |-> "none"]
    /\ result = [raises |-> "none", value |-> <<>>]

NextQuery == Regret \/ BestResponses \/ ExpectedValues \/ Subgame

SpecQuery == InitQuery /\ [][NextQuery]_vars

----------------------------------------------------------------------------
(* The claims on the payoff game.                                          *)

\* the table handed to paygame.game has a payoff that is not 0, or is NaN,
\* at a place where the profile's count is 0
UnsupportedPayoff(inp) ==
    \E p \in 1..Len(inp.profiles) : \E i \in 1..Len(inp.profiles[p]) :
        /\ p <= Len(inp.payoffs)
        /\ inp.profiles[p][i] = 0
        /\ inp.payoffs[p][i] # 0

\* C11: in every constructed payoff game the payoff is exactly 0 wherever
\* the profile's count is 0, and paygame.game fails on a table with a
\* nonzero or NaN payoff at a zero-count place.
C11_ZeroWhereUnsupported ==
    /\ pc \in {"built", "called"} =>
          \A p \in 1..Len(game.profiles) : \A i \in 1..Len(game.profiles[p]) :
              game.profiles[p][i] = 0 => game.payoffs[p][i] = 0
    /\ (call.op = "game" /\ UnsupportedPayoff(call.args)) =>
          result.raises = "AssertionError"

\* a table that is wrong only by a NaN at a zero-count place was rejected
C11_Witness ==
    /\ pc = "error"
    /\ call.op = "game"
    /\ Len(call.args.payoffs) = Len(call.args.profiles)
    /\ \E p \in 1..Len(call.args.profiles) :
         \E i \in 1..Len(call.args.profiles[p]) :
            /\ call.args.profiles[p][i] = 0
            /\ IsNaN(call.args.payoffs[p][i])
            /\ paygame_game([call.args EXCEPT
                   !.payoffs = SetAt2(call.args.payoffs, p, i, 0)]).raises = "none"

\* the index of the j-th strategy of mask m
Column(m, j) ==
    CHOOSE i \in 1..Len(m) :
        m[i] /\ Cardinality({k \in 1..i : m[k]}) = j

\* a row cut down to the strategies of m, in their order
SliceTo(row, m) ==
    [j \in 1..Cardinality({i \in 1..Len(m) : m[i]}) |-> row[Column(m, j)]]

\* the stored profiles of g whose support lies within m
Within(g, m) ==
    {p \in 1..Len(g.profiles) :
        \A i \in 1..Len(m) : g.profiles[p][i] > 0 => m[i]}

\* the rows of a game as a set of pairs of profile and payoffs
Rows(g) == {<<g.profiles[p], g.payoffs[p]>> : p \in 1..Len(g.profiles)}

\* a sample game's profiles with their observations
SampleRows(sg) ==
    UNION {{<<sg.blocks[b].profiles[p], sg.blocks[b].samples[p]>> :
                p \in 1..Len(sg.blocks[b].profiles)} :
             b \in 1..Len(sg.blocks)}

\* a restricted sample game holds the profiles within the mask with all
\* their observations, cut to the mask
SampleRestrictKeepsSupported ==
    call.op = "sample_restrict" =>
        LET m == call.args
            sub == result.value
        IN /\ result.raises = "none"
           /\ SampleRows(sub) =
                 {<<SliceTo(row[1], m),
                    [k \in 1..Len(row[2]) |-> SliceTo(row[2][k], m)]>> :
                    row \in {r \in SampleRows(sgame) :
                                \A i \in 1..Len(m) : r[1][i] > 0 => m[i]}}
           /\ Len(sample_profiles(sub)) = Cardinality(SampleRows(sub))
           /\ \A r \in 1..Len(sgame.strats) :
                 sub.strats[r] = Cardinality({i \in 1..Len(m) :
                     m[i] /\ RoleOf(sgame, i) = r})
           /\ sub.players = sgame.players

\* C12: restrict(M) keeps exactly the stored profiles whose support lies
\* within M, profiles and payoffs cut to M's columns in their order, and
\* returns an empty game, not an error, when no stored profile qualifies.
C12_RestrictKeepsSupported ==
    /\ SampleRestrictKeepsSupported
    /\ call.op = "restrict" =>
        LET m == call.args
            sub == result.value
        IN /\ result.raises = "none"
           /\ Len(sub.profiles) = Cardinality(Within(game, m))
           /\ Len(sub.payoffs) = Len(sub.profiles)
           /\ Rows(sub) = {<<SliceTo(game.profiles[p], m),
                             SliceTo(game.payoffs[p], m)>> : p \in Within(game, m)}
           /\ \A r \in 1..Len(game.strats) :
                 sub.strats[r] = Cardinality({i \in 1..Len(m) :
                     m[i] /\ RoleOf(game, i) = r})
           /\ sub.players = game.players

\* a restriction dropped a stored profile and kept another
C12_Witness ==
    /\ call.op = "restrict"
    /\ Len(result.value.profiles) > 0
    /\ Len(result.value.profiles) < Len(game.profiles)

\* a restriction of a game with stored profiles kept none of them
C12_WitnessEmpty ==
    /\ call.op = "restrict"
    /\ Len(game.profiles) > 0
    /\ Len(result.value.profiles) = 0

\* a mixture that plays one strategy of every role
IsPure(mix) == \A i \in 1..Len(mix) : mix[i] \in {0, MixDen}

\* the profile in which everybody plays the strategy mix supports, but for
\* one player of the role of s, who plays s
DeviationProfile(g, mix, s) ==
    LET all == [i \in 1..Len(mix) |->
                   IF mix[i] = MixDen THEN g.players[RoleOf(g, i)] ELSE 0]
        from == CHOOSE i \in 1..Len(mix) :
                   mix[i] = MixDen /\ RoleOf(g, i) = RoleOf(g, s)
    IN IF from = s THEN all
       ELSE [all EXCEPT ![from] = @ - 1, ![s] = 1]

\* C13: under a pure mixture the deviation payoff of s is the stored payoff
\* of s in the profile where all play the supported strategies but for one
\* player of s's role who plays s; it is NaN exactly when that profile is
\* absent or stores NaN for s, whatever else is NaN or absent.  On the game
\* of profiles [3,0,0,0], [2,1,0,0], [2,0,1,0] with payoffs [1,0,0,0],
\* [NaN,2,0,0], [5,0,NaN,0], deviation_payoffs((1,0,0,0)) = (1,2,NaN,NaN).
C13_PureDeviationPayoffs ==
    (call.op = "deviation_payoffs" /\ IsPure(call.args)) =>
        /\ \A s \in Strats(game) :
              LET q == DeviationProfile(game, call.args, s)
                  at == {p \in 1..Len(game.profiles) : game.profiles[p] = q}
              IN IF at = {} THEN IsFracNaN(result.value[s])
                 ELSE \A p \in at :
                        result.value[s] = ToFrac(game.payoffs[p][s])
        /\ (game = NanMaskGame /\ call.args = <<MixDen, 0, 0, 0>>) =>
              result.value = <<<<1, 1>>, <<2, 1>>, FracNaN, FracNaN>>

\* a pure mixture got a payoff for s from a profile that stores NaN for
\* another strategy, in a game where a profile is absent
C13_Witness ==
    /\ call.op = "deviation_payoffs"
    /\ IsPure(call.args)
    /\ Len(game.profiles) < Cardinality(AllProfiles(game.players, game.strats))
    /\ \E s \in Strats(game) : \E p \in 1..Len(game.profiles) :
          /\ game.profiles[p] = DeviationProfile(game, call.args, s)
          /\ ~IsFracNaN(result.value[s])
          /\ \E t \in Strats(game) : IsNaN(game.payoffs[p][t])

\* the strategies of role r with a deviation payoff in devs
Available(g, devs, r) ==
    {s \in Strats(g) : RoleOf(g, s) = r /\ ~IsFracNaN(devs[s])}

\* the available strategies of role r whose deviation payoff is not exceeded
Maxima(g, devs, r) ==
    {s \in Available(g, devs, r) :
        \A t \in Available(g, devs, r) : ~FracGt(devs[t], devs[s])}

RECURSIVE FracSum(_)
FracSum(a) == IF a = <<>> THEN <<0, 1>> ELSE FracAdd(Head(a), FracSum(Tail(a)))

\* br is, over role r, the uniform distribution on the maxima: equal mass
\* on each, none elsewhere, 1 in all
UniformOnMaxima(g, devs, r, br) ==
    /\ \A best \in {Maxima(g, devs, r)} :
          \A s \in Strats(g) : RoleOf(g, s) = r =>
              IF s \in best THEN br[s] = Frac(1, Cardinality(best))
              ELSE br[s] = <<0, 1>>
    /\ FracSum(SubSeq(br, role_starts(g.strats)[r] + 1,
                      role_starts(g.strats)[r] + g.strats[r])) = <<1, 1>>

\* C14 as stated: for every role the best response is the uniform
\* distribution over the maxima of the available deviation payoffs, and its
\* mass sums to 1.
C14_Original ==
    call.op = "best_response" =>
        \A devs \in {deviation_payoffs(game, call.args)} :
            \A r \in 1..Len(game.strats) :
                UniformOnMaxima(game, devs, r, result.value)

\* C14, amended: for every role with an available deviation payoff the best
\* response is the uniform distribution over the maxima of the available
\* deviation payoffs, ties sharing the mass, which sums to 1; over a role
\* whose deviation payoffs are all NaN the best response is NaN.
C14_BestResponse ==
    call.op = "best_response" =>
        \A devs \in {deviation_payoffs(game, call.args)} :
            \A r \in 1..Len(game.strats) :
                IF Available(game, devs, r) # {}
                THEN UniformOnMaxima(game, devs, r, result.value)
                ELSE \A s \in Strats(game) :
                        RoleOf(game, s) = r => IsFracNaN(result.value[s])

\* a best response shared between two tied strategies while a third
\* strategy or another role has no deviation payoff
C14_Witness ==
    /\ call.op = "best_response"
    /\ \E devs \in {deviation_payoffs(game, call.args)} :
          /\ \E r \in 1..Len(game.strats) :
                Cardinality(Maxima(game, devs, r)) = 2
          /\ \E s \in Strats(game) : IsFracNaN(devs[s])

\* profile prof is stored in g with a payoff for every strategy it plays
StoredWithPayoffs(g, prof) ==
    \E p \in 1..Len(g.profiles) :
        /\ g.profiles[p] = prof
        /\ \A i \in 1..Len(prof) : prof[i] > 0 => ~IsNaN(g.payoffs[p][i])

\* C17: a profile is in a payoff game exactly when it is stored and none of
\* the payoffs of the strategies it plays is NaN, and num_complete_profiles
\* is the number of the profiles that are in the game.
C17_ContainsComplete ==
    /\ call.op = "contains" =>
          (result.value <=> StoredWithPayoffs(game, call.args))
    /\ pc \in {"built", "called"} =>
          num_complete_profiles(game) =
              Cardinality({prof \in AllProfiles(game.players, game.strats) :
                              StoredWithPayoffs(game, prof)})

\* a stored profile with a NaN payoff was found not to be in the game
C17_Witness ==
    /\ call.op = "contains"
    /\ ~result.value
    /\ \E p \in 1..Len(game.profiles) : game.profiles[p] = call.args
    /\ num_complete_profiles(game) > 0

\* every stored profile of the sample game has exactly one observation
SingleObservation(sg) ==
    \A b \in 1..Len(sg.blocks) : \A p \in 1..Len(sg.blocks[b].samples) :
        Len(sg.blocks[b].samples[p]) = 1

\* the rows of the payoff game that holds, for every stored profile of the
\* sample game, the mean of its observations
MeanRows(sg) ==
    UNION {{<<sg.blocks[b].profiles[p],
              [i \in 1..SumSeq(sg.strats) |->
                  LET obs == sg.blocks[b].samples[p]
                  IN Frac(SumSeq([k \in 1..Len(obs) |-> obs[k][i]]), Len(obs))]>> :
                p \in 1..Len(sg.blocks[b].profiles)} :
             b \in 1..Len(sg.blocks)}

\* C15: resampling a sample game in which every profile has exactly one
\* observation yields the payoff game of the means, whatever the
\* independent_profile, independent_role and independent_strategy options
\* and the number of resamples; resampling an empty sample game yields the
\* empty payoff game.
C15_SingleSampleResample ==
    (call.op = "resample" /\ SingleObservation(sgame)) =>
        /\ result.raises = "none"
        /\ result.value.players = sgame.players
        /\ result.value.strats = sgame.strats
        /\ Len(result.value.payoffs) = Len(result.value.profiles)
        /\ Len(result.value.profiles) = Cardinality(MeanRows(sgame))
        /\ Rows(result.value) = MeanRows(sgame)
        /\ game_eq(result.value, game_copy(sgame))
        /\ sgame.blocks = <<>> => result.value.profiles = <<>>

\* a game of two profiles of one observation each was resampled twice over,
\* every draw independent
C15_Witness ==
    /\ call.op = "resample"
    /\ SingleObservation(sgame)
    /\ Len(result.value.profiles) = 2
    /\ call.args.num_resamples = 2
    /\ call.args.flags.independent_profile
    /\ call.args.flags.independent_role
    /\ call.args.flags.independent_strategy
    /\ \E p \in 1..2 : \E i \in 1..Len(result.value.payoffs[p]) :
          result.value.payoffs[p][i] = <<1, 1>>

\* an empty sample game was resampled
C15_WitnessEmpty ==
    /\ call.op = "resample"
    /\ sgame.blocks = <<>>

\* with two observations of a profile a resample differs from the means
C15_ResampleChanges ==
    /\ call.op = "resample"
    /\ Rows(result.value) # MeanRows(sgame)

\* every profile carries the same multiset of observation vectors in a and b
SameObservations(a, b) ==
    /\ a.players = b.players
    /\ a.strats = b.strats
    /\ {row[1] : row \in SampleRows(a)} = {row[1] : row \in SampleRows(b)}
    /\ \A x \in SampleRows(a) : \A y \in SampleRows(b) :
          x[1] = y[1] =>
              /\ Len(x[2]) = Len(y[2])
              /\ \E f \in Perms(Len(x[2])) : Permute(x[2], f) = y[2]

\* C16: two sample games over the same schema are equal, with equal hashes,
\* whenever every profile carries the same multiset of observation vectors,
\* whatever the order of blocks, of profiles in a block, of observations;
\* payoff games holding the same rows in another order are equal, with
\* equal hashes.
C16_EqualUnderReordering ==
    /\ (call.op = "sample_eq" /\ SameObservations(sgame, call.args)) =>
          result.value.eq /\ result.value.hash_eq
    /\ (call.op = "eq" /\ Rows(game) = Rows(call.args)
            /\ Len(game.profiles) = Len(call.args.profiles)) =>
          result.value.eq /\ result.value.hash_eq

\* a sample game was compared with itself given in another order of blocks
C16_Witness ==
    /\ call.op = "sample_eq"
    /\ SameObservations(sgame, call.args)
    /\ Len(sgame.blocks) = 2
    /\ call.args.blocks[1] # sgame.blocks[1]
    /\ result.value.eq

\* a payoff game was compared with itself given in another order of rows
C16_WitnessRows ==
    /\ call.op = "eq"
    /\ Rows(game) = Rows(call.args)
    /\ game.profiles # call.args.profiles
    /\ result.value.eq

\* games that differ are found different
C16_WitnessDiffer ==
    /\ call.op \in {"eq", "sample_eq"}
    /\ ~result.value.eq

----------------------------------------------------------------------------
(* The claims on the queries of RoleSymmetricGame.Game.                    *)

\* the profile with one s of the role replaced by t, by its counts
ReplaceOne(g, profile, role, s, t) ==
    [profile EXCEPT ![role] =
        CHOOSE sp \in CwR(g.strategies[role], g.counts[role]) :
            \A x \in g.strategies[role] :
                count(sp, x) = count(profile[role], x)
                                 - (IF x = s THEN 1 ELSE 0)
                                 + (IF x = t THEN 1 ELSE 0)]

\* what every single-player deviation from the profile gains
Deltas(g, profile) ==
    {g.payoffs[ReplaceOne(g, profile, d[1], d[2], d[3])][d[1]][d[3]]
        - g.payoffs[profile][d[1]][d[2]] :
       d \in {x \in g.roles \X {"a", "b", "c", "d"} \X {"a", "b", "c", "d"} :
                 /\ x[2] \in getStrategies(profile[x[1]])
                 /\ x[3] \in g.strategies[x[1]] \ {x[2]}}}

\* C18: Game.regret(profile) is the maximum over the roles, the strategies
\* s played and the other strategies s' of the role of the payoff of s' in
\* the profile with one s replaced by s' minus the payoff of s in the
\* profile, floored at 0: it is never negative, and it is 0 exactly when no
\* single-player deviation strictly gains.
C18_RegretIsMaxGain ==
    (pc = "ret" /\ call.op = "regret" /\ result.raises = "none") =>
        \A ds \in {Deltas(self, call.args)} :
            /\ result.value \in ds \cup {0}
            /\ \A x \in ds \cup {0} : x <= result.value
            /\ result.value >= 0
            /\ (result.value = 0) <=> (\A x \in ds : x <= 0)

\* a regret that some deviation gains
C18_Witness ==
    /\ pc = "ret" /\ call.op = "regret" /\ result.raises = "none"
    /\ result.value > 0
    /\ \E x \in Deltas(self, call.args) : x < 0

\* a regret floored at 0: every deviation loses
C18_WitnessFloor ==
    /\ pc = "ret" /\ call.op = "regret" /\ result.raises = "none"
    /\ result.value = 0
    /\ Deltas(self, call.args) # {}
    /\ \A x \in Deltas(self, call.args) : x < 0

\* the game holds every profile of its schema
IsComplete(g) == allProfiles(g) \subseteq DOMAIN g.payoffs

\* what the remaining players may draw, player by player: every role's
\* players but one player of the given role
OthersDraws(g, role) ==
    {o \in [g.roles -> UNION {UNION {[1..k -> g.strategies[r]] :
                                        k \in 0..g.counts[r]} : r \in g.roles}] :
        \A r \in g.roles :
            o[r] \in [1..(g.counts[r] - (IF r = role THEN 1 ELSE 0))
                         -> g.strategies[r]]}

\* the probability of one draw: every player draws independently from the
\* mixture of its role
RECURSIVE DrawProbability(_, _, _)
DrawProbability(m, o, todo) ==
    IF todo = {} THEN <<1, 1>>
    ELSE LET r == CHOOSE x \in todo : TRUE
         IN FracMul(reduce_mul(m[r], o[r]), DrawProbability(m, o, todo \ {r}))

\* the sum of probability times payoff over a tuple of draws
RECURSIVE ExpectationOver(_, _, _, _, _)
ExpectationOver(g, m, role, s, draws) ==
    IF draws = <<>> THEN <<0, 1>>
    ELSE LET o == Head(draws)
             profile == [r \in g.roles |->
                            sorted(IF r = role THEN o[r] \o <<s>> ELSE o[r])]
         IN FracAdd(FracMul(DrawProbability(m, o, g.roles),
                            <<g.payoffs[profile][role][s], 1>>),
                    ExpectationOver(g, m, role, s, Tail(draws)))

\* the expected payoff of one player of the role who plays s while all the
\* remaining players draw from m
ExpectedPayoff(g, m, role, s) ==
    ExpectationOver(g, m, role, s, SetToSeq(OthersDraws(g, role)))

\* C19: Game.expectedValues(m) returns, for every role and every pure
\* strategy s of the role, the strategies of probability zero under m
\* included, the expected payoff of a single player who plays s while all
\* remaining players draw their strategies independently from m.
C19_ExpectedValues ==
    (pc = "ret" /\ call.op = "expectedValues" /\ IsComplete(self)) =>
        \A r \in self.roles : \A s \in self.strategies[r] :
            result.value[r][s] = ExpectedPayoff(self, call.args, r, s)

\* the same on the strategies m gives a positive probability
ExpectedValuesOnSupport ==
    (pc = "ret" /\ call.op = "expectedValues" /\ IsComplete(self)) =>
        \A r \in self.roles : \A s \in self.strategies[r] :
            call.args[r][s] > 0 =>
                result.value[r][s] = ExpectedPayoff(self, call.args, r, s)

\* a strategy of probability zero gets 0.0, whatever it would earn
ZeroProbabilityGetsZero ==
    (pc = "ret" /\ call.op = "expectedValues") =>
        \A r \in self.roles : \A s \in self.strategies[r] :
            call.args[r][s] = 0 => result.value[r][s] = <<0, 1>>

\* expected values asked of a complete game under a mixture that leaves a
\* strategy out which would earn something
C19_Witness ==
    /\ pc = "ret" /\ call.op = "expectedValues" /\ IsComplete(self)
    /\ \E r \in self.roles : \E s \in self.strategies[r] :
          /\ call.args[r][s] = 0
          /\ ExpectedPayoff(self, call.args, r, s) # <<0, 1>>

\* the profiles of the sub-game a call of subgame asks for: the given
\* roles (all of them by default) with the given strategies (none by default)
SubgameProfiles(g, sub_roles, sub_strategies) ==
    LET rs == IF sub_roles = {} THEN g.roles ELSE sub_roles
        st == IF sub_strategies = <<>> THEN [r \in g.roles |-> {}]
              ELSE sub_strategies
    IN {prof \in [rs -> UNION {CwR(st[r], g.counts[r]) : r \in rs}] :
           \A r \in rs : prof[r] \in CwR(st[r], g.counts[r])}

\* C20: Game.subgame(roles, strategies) raises KeyError when any profile of
\* the sub-game over the given strategies is missing from the game's payoff
\* data, and otherwise returns a game that holds every profile over those
\* strategies with the same payoffs as in the original game; with default
\* arguments it returns a game with all roles, no strategies and no profiles.
C20_SubgameOrKeyError ==
    (pc = "ret" /\ call.op = "subgame") =>
        \A profs \in {SubgameProfiles(self, call.args.roles,
                                      call.args.strategies)} :
            /\ (\E p \in profs : p \notin DOMAIN self.payoffs)
                   <=> result.raises = "KeyError"
            /\ (\A p \in profs : p \in DOMAIN self.payoffs) =>
                   /\ result.raises = "none"
                   /\ DOMAIN result.value.payoffs = profs
                   /\ \A p \in profs :
                         result.value.payoffs[p] = self.payoffs[p]
                   /\ \A r \in result.value.roles :
                         result.value.strategies[r] =
                             IF call.args.strategies = <<>> THEN {}
                             ELSE call.args.strategies[r]
            /\ (call.args.roles = {} /\ call.args.strategies = <<>>) =>
                   /\ result.raises = "none"
                   /\ result.value.roles = self.roles
                   /\ \A r \in self.roles : result.value.strategies[r] = {}
                   /\ DOMAIN result.value.payoffs = {}

\* a sub-game asked for with a profile missing from the payoff data
C20_Witness ==
    /\ pc = "ret" /\ call.op = "subgame"
    /\ result.raises = "KeyError"
    /\ call.args.roles = self.roles
    /\ \E p \in SubgameProfiles(self, call.args.roles, call.args.strategies) :
          p \in DOMAIN self.payoffs
    /\ \E p \in SubgameProfiles(self, call.args.roles, call.args.strategies) :
          p \notin DOMAIN self.payoffs

\* a sub-game returned with some but not all of the profiles of the game
C20_WitnessReturned ==
    /\ pc = "ret" /\ call.op = "subgame"
    /\ result.raises = "none"
    /\ DOMAIN result.value.payoffs # {}
    /\ DOMAIN result.value.payoffs # DOMAIN self.payoffs

\* the sub-game of the default arguments, of a game that holds profiles
C20_WitnessDefault ==
    /\ pc = "ret" /\ call.op = "subgame"
    /\ call.args.roles = {} /\ call.args.strategies = <<>>
    /\ DOMAIN self.payoffs # {}
    /\ result.raises = "none"

\* the payoffs a player of the role can be known to get against the others
KnownResponses(g, role, opponent_profile) ==
    {strat \in g.strategies[role] :
        getPayoff(g, add(opponent_profile, role, strat), role, strat).raises
            = "none"}

\* Game.BR lists, without repetition, exactly the strategies of maximal
\* payoff among those whose profile is stored, and nothing when none is
BRListsTheMaxima ==
    (pc = "ret" /\ call.op = "BR") =>
        LET known == KnownResponses(self, call.args.role,
                                    call.args.opponent_profile)
            pay(strat) == getPayoff(self,
                              add(call.args.opponent_profile, call.args.role,
                                  strat), call.args.role, strat).value
        IN /\ {result.value[i] : i \in 1..Len(result.value)} =
                 {strat \in known : \A other \in known : pay(other) <= pay(strat)}
           /\ \A i, j \in 1..Len(result.value) :
                 result.value[i] = result.value[j] => i = j
           /\ (known = {}) <=> (result.value = <<>>)

----------------------------------------------------------------------------
(* The claims on the validation of profiles by RoleSymmetricGame.Game.     *)

\* the profile gives every role of the game exactly its players, all on
\* strategies of the role, and names no other role
IsLegalProfile(profile) ==
    /\ DOMAIN profile = roles
    /\ \A r \in roles :
          /\ Len(profile[r]) = counts[r]
          /\ \A i \in 1..Len(profile[r]) : profile[r][i] \in strategies[r]

\* C21: a profile is accepted as valid for a game (Game.isValidProfile, and
\* hence Game.__setitem__ and Game.update) only if, for every role of the
\* game, it assigns exactly counts[role] players, all of them to strategies
\* of that role; a profile that leaves out a role of the game or names an
\* unknown role is rejected.
C21_OnlyLegalProfilesAccepted ==
    (gpc = "built" /\ call.op \in {"setitem", "update"} /\ last = "ok") =>
        \A profile \in DOMAIN call.args : IsLegalProfile(profile)

\* the same for the profiles the game did not hold before the call
NewProfilesAreLegal ==
    [][(gpc = "built" /\ call'.op \in {"setitem", "update"} /\ last' = "ok") =>
          \A profile \in DOMAIN call'.args \ DOMAIN data :
              IsLegalProfile(profile)]_vars

\* what the code does check: the roles a new profile names are roles of
\* the game, with their player counts and their strategies
NamedRolesAreLegal ==
    [][(gpc = "built" /\ call'.op \in {"setitem", "update"} /\ last' = "ok") =>
          \A profile \in DOMAIN call'.args \ DOMAIN data :
              \A r \in DOMAIN profile :
                  /\ r \in roles
                  /\ Len(profile[r]) = counts[r]
                  /\ \A i \in 1..Len(profile[r]) :
                        profile[r][i] \in strategies[r]]_vars

\* a profile that leaves out a role, stored by a call that did not raise
C21_Witness ==
    /\ gpc = "built" /\ call.op \in {"setitem", "update"} /\ last = "ok"
    /\ \E profile \in DOMAIN call.args : DOMAIN profile # roles

\* C29: Game.update is all-or-nothing: if any profile of the batch is
\* invalid the call raises and the game's payoff data is unchanged (no
\* profile of the batch, valid or not, is stored); likewise a
\* Game.__setitem__ with an invalid profile raises and stores nothing.
C29_AllOrNothing ==
    [][(gpc = "built" /\ call'.op \in {"setitem", "update"}) =>
          /\ (\E profile \in DOMAIN call'.args : ~isValidProfile(data, profile))
                <=> last' = "AssertionError"
          /\ last' \in {"ok", "AssertionError"}
          /\ last' = "AssertionError" => data' = data
          /\ last' = "ok" =>
                /\ DOMAIN data' = DOMAIN data \cup DOMAIN call'.args
                /\ \A profile \in DOMAIN call'.args :
                      data'[profile] = call'.args[profile]
                /\ \A profile \in DOMAIN data \ DOMAIN call'.args :
                      data'[profile] = data[profile]]_vars

\* an update that raised on a batch holding a valid profile the game did
\* not hold, and left it out
C29_Witness ==
    /\ gpc = "built" /\ call.op = "update" /\ last = "AssertionError"
    /\ \E profile \in DOMAIN call.args :
          /\ isValidProfile(data, profile)
          /\ profile \notin DOMAIN data

\* a setitem that raised
C29_WitnessSetItem ==
    /\ gpc = "built" /\ call.op = "setitem" /\ last = "AssertionError"

----------------------------------------------------------------------------
(* RoleSymmetricGame.py: the size of a game and the list of its profiles.  *)

MaxPlayers == 3

\* range(a, b) as a tuple
RECURSIVE range(_, _)
range(a, b) == IF a >= b THEN <<>> ELSE <<a>> \o range(a + 1, b)

\* nCr(n, k), lines 9-13; the reduce of an empty range raises TypeError
nCr(n, k) == Product(range(n - k + 1, n + 1)) \div Factorial(k)

\* game_size(n, s) counting the profiles without a repeated strategy
game_size_norepeat(n, s) == IF s < n THEN 0 ELSE nCr(s, n)

\* game_size(n, s), lines 15-19
game_size(n, s) == nCr(n + s - 1, n)

\* Game.size as Game.__init__ sets it, lines 203-204
RECURSIVE Game_size(_, _)
Game_size(g, todo) ==
    IF todo = <<>> THEN 1
    ELSE game_size(g.counts[Head(todo)], Cardinality(g.strategies[Head(todo)]))
           * Game_size(g, Tail(todo))

\* itertools.combinations_with_replacement(pool, n): the list of the
\* n-tuples over the tuple pool with non-decreasing positions, in
\* lexicographic order of the positions
RECURSIVE combinations_with_replacement(_, _)
RECURSIVE cwr_from(_, _, _)
cwr_from(pool, n, i) ==
    IF i > Len(pool) THEN <<>>
    ELSE LET rests == combinations_with_replacement(
                          SubSeq(pool, i, Len(pool)), n - 1)
         IN [k \in 1..Len(rests) |-> <<pool[i]>> \o rests[k]]
              \o cwr_from(pool, n, i + 1)
combinations_with_replacement(pool, n) ==
    IF n = 0 THEN <<<<>>>> ELSE cwr_from(pool, n, 1)

\* itertools.product of the lists of the roles still to do, each element
\* the Profile of zip(self.roles, p)
RECURSIVE product(_, _)
product(g, todo) ==
    IF todo = <<>> THEN <<<<>>>>
    ELSE LET r == Head(todo)
             firsts == combinations_with_replacement(
                           sorted(SetToSeq(g.strategies[r])), g.counts[r])
             rests == product(g, Tail(todo))
         IN [k \in 1..(Len(firsts) * Len(rests)) |->
                [x \in {r} |-> sorted(firsts[((k - 1) \div Len(rests)) + 1])]
                  @@ rests[((k - 1) % Len(rests)) + 1]]

\* sorted(roles) of the role names of the model
sorted_roles(rs) ==
    IF rs = {"R1", "R2"} THEN <<"R1", "R2">> ELSE SetToSeq(rs)

\* Game.allProfiles() as the list it returns, lines 243-246
allProfiles_list(g) == product(g, sorted_roles(g.roles))

\* the schemas: one or two roles of 1..MaxPlayers players on one to three
\* strategies, no payoff data
Schemas ==
    {g \in [roles : {{"R1"}, {"R1", "R2"}},
            counts : UNION {[rs -> 1..MaxPlayers] : rs \in {{"R1"}, {"R1", "R2"}}},
            strategies : UNION {[rs -> SUBSET {"a", "b", "c"} \ {{}}] :
                                   rs \in {{"R1"}, {"R1", "R2"}}},
            payoffs : {<<>>}] :
        DOMAIN g.counts = g.roles /\ DOMAIN g.strategies = g.roles}

\* game.allProfiles() and game.size of a game just constructed
AllProfilesOf ==
    /\ pc = "idle"
    /\ call' = [op |-> "allProfiles"]
    /\ result' = [raises |-> "none",
                  value |-> [profiles |-> allProfiles_list(self),
                             size |-> Game_size(self, sorted_roles(self.roles))]]
    /\ pc' = "ret"
    /\ QueryFrame

InitSchema ==
    /\ pc = "idle"
    /\ game = <<>>
    /\ criterion = "none"
    /\ conditional = FALSE
    /\ ret = <<>>
    /\ rest = <<>>
    /\ mask = <<>>
    /\ gains = <<>>
    /\ supports = <<>>
    /\ num_strats = <<>>
    /\ iters = 0
    /\ InitGame
    /\ sgame = <<>>
    /\ self \in Schemas
    /\ call = [op |-> "none"]
    /\ result = [raises |-> "none", value |-> <<>>]

NextSchema == AllProfilesOf

SpecSchema == InitSchema /\ [][NextSchema]_vars

\* n choose k
RECURSIVE Choose(_, _)
Choose(n, k) ==
    IF k = 0 THEN 1 ELSE IF n = 0 THEN 0
    ELSE Choose(n - 1, k - 1) + Choose(n - 1, k)

RECURSIVE ProductOverRoles(_, _)
ProductOverRoles(g, todo) ==
    IF todo = {} THEN 1
    ELSE LET r == CHOOSE x \in todo : TRUE
         IN Choose(g.counts[r] + Cardinality(g.strategies[r]) - 1, g.counts[r])
              * ProductOverRoles(g, todo \ {r})

\* C22: for every schema with at least one player and one strategy per
\* role, Game.allProfiles() returns exactly Game.size = the product over
\* the roles of C(players_r + strats_r - 1, players_r) pairwise distinct
\* profiles, each of which assigns every role exactly its player count on
\* that role's strategies.
C22_AllProfilesCount ==
    (pc = "ret" /\ call.op = "allProfiles") =>
        \A ps \in {result.value.profiles} :
            /\ Len(ps) = result.value.size
            /\ result.value.size = ProductOverRoles(self, self.roles)
            /\ \A i, j \in 1..Len(ps) : ps[i] = ps[j] => i = j
            /\ \A i \in 1..Len(ps) :
                  /\ DOMAIN ps[i] = self.roles
                  /\ \A r \in self.roles :
                        /\ Len(ps[i][r]) = self.counts[r]
                        /\ \A k \in 1..Len(ps[i][r]) :
                              ps[i][r][k] \in self.strategies[r]

\* the list holds the profiles that allProfiles gives as a set
AllProfilesListIsTheSet ==
    (pc = "ret" /\ call.op = "allProfiles") =>
        {result.value.profiles[i] : i \in 1..Len(result.value.profiles)}
            = allProfiles(self)

\* the profiles of two roles of several players with several strategies
C22_Witness ==
    /\ pc = "ret" /\ call.op = "allProfiles"
    /\ Cardinality(self.roles) = 2
    /\ \A r \in self.roles :
          self.counts[r] >= 2 /\ Cardinality(self.strategies[r]) >= 2
    /\ Len(result.value.profiles) >= 9

----------------------------------------------------------------------------
(* The dominance engine on games with a role of a single strategy, and on  *)
(* games small enough to follow the arrays of the loop.                    *)

InitIter ==
    /\ game \in GamesOf(<<1>>, <<3>>, MaxHoles + 2)
                 \cup GamesOf(<<1, 1>>, <<1, 2>>, MaxHoles + 3)
                 \cup GamesOf(<<1, 1>>, <<2, 1>>, MaxHoles + 3)
                 \cup GamesOf(<<1, 1>>, <<1, 3>>, MaxHoles + 2)
                 \cup GamesOf(<<1, 1>>, <<2, 2>>, MaxHoles)
    /\ pc = "idle"
    /\ criterion = "none"
    /\ conditional = FALSE
    /\ ret = <<>>
    /\ rest = <<>>
    /\ mask = <<>>
    /\ gains = <<>>
    /\ supports = <<>>
    /\ num_strats = <<>>
    /\ iters = 0
    /\ InitGame
    /\ InitCall

NextIter == Dominated \/ GainsRaise \/ IterStart \/ IterBody \/ IterExit

SpecIter == InitIter /\ [][NextIter]_vars

----------------------------------------------------------------------------
(* The claims on the arrays of iterated_elimination.                       *)

\* the strategies of role r that survive in the mask m over the strategies
\* of game g
Survivors(g, m, r) ==
    {i \in 1..Len(m) :
        /\ m[i]
        /\ role_starts(g.strats)[r] < i
        /\ i <= role_starts(g.strats)[r] + g.strats[r]}

RestrictedGameHasProfiles ==
    (pc = "loop" /\ iters >= 1) => ~gains_raises(Restrict(game, rest))

----------------------------------------------------------------------------
(* A role with a single strategy.                                          *)

\* the strategies (positions over all strategies of g) that are the only
\* strategy of their role
SoleStrategies(g) ==
    {role_starts(g.strats)[r] + 1 : r \in {q \in 1..Len(g.strats) : g.strats[q] = 1}}

\* the place of strategy i of the game among the survivors of the mask m
PlaceIn(m, i) == Count(SubSeq(m, 1, i))

\* C28: a strategy that is the only strategy of its role is never reported
\* by weakly_dominated or strictly_dominated, and never by
\* never_best_response on a game with at least one profile; consequently
\* iterated_elimination never removes it: it stays in rest, the next mask
\* keeps it, and the mask returned holds it.
C28_SoleStrategyStays ==
    \A i \in SoleStrategies(game) :
        /\ pc = "ret" => ~ret[i]
        /\ pc = "loop" => rest[i] /\ mask[PlaceIn(rest, i)]
        /\ pc = "done" => rest[i]

\* a game with a sole strategy whose other role lost a strategy to a
\* dominance criterion
C28_Witness ==
    /\ pc = "ret" /\ criterion # "neverbr"
    /\ SoleStrategies(game) # {}
    /\ \E j \in 1..Len(ret) : ret[j]

\* never_best_response reported on such a game
C28_WitnessNeverBR ==
    /\ pc = "ret" /\ criterion = "neverbr"
    /\ SoleStrategies(game) # {}
    /\ \E j \in 1..Len(ret) : ret[j]

\* iterated_elimination returned, having removed strategies next to a sole one
C28_WitnessIterated ==
    /\ pc = "done" /\ iters >= 1
    /\ SoleStrategies(game) # {}
    /\ ~All(rest)

----------------------------------------------------------------------------
(* Sequential.py: EquilibriumCompareEvaluator and sequential_normal_noise. *)
(* An equilibrium is the array mixed_nash returns for the game at hand: a  *)
(* mixture over two strategies, as numerators over EqDen. A threshold is a *)
(* numerator over EqDen as well.                                           *)

EqDen == 4          \* equilibrium probabilities are multiples of 1 / EqDen
MaxThreshold == 3   \* compare_threshold is drawn from 0..MaxThreshold
MaxSamples == 2     \* game.max_samples is drawn from 0..MaxSamples
MaxIncrement == 2   \* sample_increment is drawn from 1..MaxIncrement

None == <<>>

Equilibria == {<<k, EqDen - k>> : k \in 0..EqDen}

\* the square of numpy.linalg.norm(v) of a 1-d array
norm2(v) == SumSeq([i \in 1..Len(v) |-> v[i] * v[i]])

\* norm(old - new) >= thr
norm_reaches(old, new, thr) ==
    norm2([i \in 1..Len(old) |-> old[i] - new[i]]) >= thr * thr

\* norm(self.old_equilibrium - new_equilibrium) > self.compare_threshold,
\* lines 54-55; thr >= 0, so both sides are compared by their squares
norm_exceeds(old, new, thr) ==
    norm2([i \in 1..Len(old) |-> old[i] - new[i]]) > thr * thr

\* EquilibriumCompareEvaluator(compare_threshold): the fields
\* continue_sampling reads and writes; the others are handed to mixed_nash
Evaluator_init(compare_threshold) ==
    [compare_threshold |-> compare_threshold, old_equilibrium |-> None]

\* continue_sampling deciding by the norm alone
continue_sampling_nonone(ev, max_samples, nash) ==
    IF max_samples = 0
    THEN [value |-> TRUE, self |-> ev, nash_calls |-> 0]
    ELSE LET new_equilibrium == nash
             decision ==
                 /\ ev.old_equilibrium # None
                 /\ norm_exceeds(ev.old_equilibrium, new_equilibrium,
                                 ev.compare_threshold)
         IN [value |-> decision,
             self |-> [ev EXCEPT !.old_equilibrium = new_equilibrium],
             nash_calls |-> 1]

\* continue_sampling recording the new equilibrium only when it continues
continue_sampling_keep(ev, max_samples, nash) ==
    IF max_samples = 0
    THEN [value |-> TRUE, self |-> ev, nash_calls |-> 0]
    ELSE LET new_equilibrium == nash
             decision ==
                 \/ ev.old_equilibrium = None
                 \/ norm_exceeds(ev.old_equilibrium, new_equilibrium,
                                 ev.compare_threshold)
         IN [value |-> decision,
             self |-> IF decision
                      THEN [ev EXCEPT !.old_equilibrium = new_equilibrium]
                      ELSE ev,
             nash_calls |-> 1]

\* EquilibriumCompareEvaluator.continue_sampling(game), lines 48-57, on a
\* game with game.max_samples = max_samples for which mixed_nash returns
\* nash: the value returned, the evaluator afterwards and the number of
\* calls of mixed_nash. `is 0` is equality on a Python int.
continue_sampling(ev, max_samples, nash) ==
    IF max_samples = 0
    THEN [value |-> TRUE, self |-> ev, nash_calls |-> 0]
    ELSE LET new_equilibrium == nash
             decision ==
                 \/ ev.old_equilibrium = None
                 \/ norm_exceeds(ev.old_equilibrium, new_equilibrium,
                                 ev.compare_threshold)
         IN [value |-> decision,
             self |-> [ev EXCEPT !.old_equilibrium = new_equilibrium],
             nash_calls |-> 1]

\* SequentialSamplingGame(roles, players, strategies), lines 6-8: __init__
\* calls the unbound SampleGame.__init__ with the roles list in the place
\* of self, which Python 2 rejects with TypeError
SequentialSamplingGame(a_roles, a_players, a_strategies) ==
    [raises |-> "TypeError", value |-> None]

\* sequential_normal_noise(game, stdev, evaluator, sample_increment), lines
\* 10-35, on a base game that has a players attribute or, as
\* RoleSymmetricGame.Game, has none. Line 19 raises: AttributeError on
\* game.players, or else the TypeError of the constructor. The loop of
\* lines 20-35 is not entered, the evaluator is not asked, and g, the game
\* the function is to return, is never bound.
sequential_normal_noise(ev, has_players, sample_increment) ==
    IF ~has_players
    THEN [raises |-> "AttributeError", value |-> None, g |-> None, self |-> ev]
    ELSE LET made == SequentialSamplingGame("roles", "players", "strategies")
         IN [raises |-> made.raises, value |-> None, g |-> made.value, self |-> ev]

\* one call of evaluator.continue_sampling(game)
ContinueSampling ==
    /\ pc = "idle"
    /\ \E max_samples \in 0..MaxSamples, nash \in Equilibria :
         \A r \in {continue_sampling(self, max_samples, nash)} :
            /\ call' = [op |-> "continue_sampling",
                        args |-> [max_samples |-> max_samples, mixed_nash |-> nash],
                        receiver |-> self]
            /\ self' = r.self
            /\ result' = [raises |-> "none", value |-> r.value,
                          nash_calls |-> r.nash_calls]
    /\ UNCHANGED <<domvars, gamevars, sgame>>

\* one call of sequential_normal_noise with the evaluator
SequentialNormalNoise ==
    /\ pc = "idle"
    /\ \E has_players \in BOOLEAN, sample_increment \in 1..MaxIncrement :
         \A r \in {sequential_normal_noise(self, has_players, sample_increment)} :
            /\ call' = [op |-> "sequential_normal_noise",
                        args |-> [has_players |-> has_players,
                                  sample_increment |-> sample_increment],
                        receiver |-> self]
            /\ self' = r.self
            /\ result' = [raises |-> r.raises, value |-> r.value, g |-> r.g,
                          nash_calls |-> 0]
    /\ UNCHANGED <<domvars, gamevars, sgame>>

InitEval ==
    /\ pc = "idle"
    /\ game = <<>>
    /\ criterion = "none"
    /\ conditional = FALSE
    /\ ret = <<>>
    /\ rest = <<>>
    /\ mask = <<>>
    /\ gains = <<>>
    /\ supports = <<>>
    /\ num_strats = <<>>
    /\ iters = 0
    /\ InitGame
    /\ sgame = <<>>
    /\ self \in {Evaluator_init(t) : t \in 0..MaxThreshold}
    /\ call = [op |-> "none"]
    /\ result = [raises |-> "none", value |-> <<>>]

NextEval == ContinueSampling \/ SequentialNormalNoise

SpecEval == InitEval /\ [][NextEval]_vars

----------------------------------------------------------------------------
(* The claims on the evaluator.                                            *)

\* C23: continue_sampling returns True whenever no previous equilibrium has
\* been recorded, whatever the newly computed equilibrium is.
C23_TrueWithoutOldEquilibrium ==
    [][(call'.op = "continue_sampling" /\ self.old_equilibrium = None)
          => result'.value = TRUE]_vars

\* a first call on a game with samples
C23_Witness ==
    /\ call.op = "continue_sampling"
    /\ call.receiver.old_equilibrium = None
    /\ call.args.max_samples > 0
    /\ result.value = TRUE

\* the square of the distance between two equilibria, over EqDen squared
Distance2(e, f) ==
    LET d == [i \in DOMAIN e |-> IF e[i] >= f[i] THEN e[i] - f[i] ELSE f[i] - e[i]]
    IN SumSeq([i \in 1..Len(e) |-> d[i] * d[i]])

\* C24: when a previous equilibrium is recorded and the game has samples,
\* continue_sampling returns True if and only if the distance between the
\* previous and the newly computed equilibrium exceeds compare_threshold.
C24_TrueIffDistant ==
    [][(/\ call'.op = "continue_sampling"
        /\ self.old_equilibrium # None
        /\ call'.args.max_samples > 0)
          => (result'.value = TRUE
                <=> Distance2(self.old_equilibrium, call'.args.mixed_nash)
                      > self.compare_threshold * self.compare_threshold)]_vars

\* a call that stopped: the new equilibrium differs from the old one and is
\* within the threshold
C24_Witness ==
    /\ call.op = "continue_sampling"
    /\ call.receiver.old_equilibrium # None
    /\ call.args.max_samples > 0
    /\ call.receiver.old_equilibrium # call.args.mixed_nash
    /\ result.value = FALSE

\* a call that continued on a distant equilibrium
C24_WitnessDistant ==
    /\ call.op = "continue_sampling"
    /\ call.receiver.old_equilibrium # None
    /\ call.args.max_samples > 0
    /\ call.receiver.compare_threshold > 0
    /\ result.value = TRUE

\* a call at the threshold: distance 0, threshold 0
C24_WitnessAtThreshold ==
    /\ call.op = "continue_sampling"
    /\ call.receiver.old_equilibrium = call.args.mixed_nash
    /\ call.args.max_samples > 0
    /\ call.receiver.compare_threshold = 0
    /\ result.value = FALSE

\* C27: every call of continue_sampling on a game that has samples replaces
\* the recorded equilibrium with the newly computed one, whatever the
\* decision; a call on a game with max_samples = 0 returns True without
\* computing an equilibrium and leaves the recorded equilibrium unchanged.
C27_RecordsNewEquilibrium ==
    [][call'.op = "continue_sampling" =>
          /\ self'.compare_threshold = self.compare_threshold
          /\ IF call'.args.max_samples > 0
             THEN /\ self'.old_equilibrium = call'.args.mixed_nash
                  /\ result'.nash_calls = 1
             ELSE /\ self'.old_equilibrium = self.old_equilibrium
                  /\ result'.nash_calls = 0
                  /\ result'.value = TRUE]_vars

\* a stopping call that replaced a different recorded equilibrium
C27_Witness ==
    /\ call.op = "continue_sampling"
    /\ call.args.max_samples > 0
    /\ result.value = FALSE
    /\ call.receiver.old_equilibrium # None
    /\ call.receiver.old_equilibrium # call.args.mixed_nash
    /\ self.old_equilibrium = call.args.mixed_nash

\* a call on a sample-less game with an equilibrium recorded
C27_WitnessNoSamples ==
    /\ call.op = "continue_sampling"
    /\ call.args.max_samples = 0
    /\ call.receiver.old_equilibrium # None
    /\ self = call.receiver

----------------------------------------------------------------------------
(* The claims on sequential_normal_noise.                                  *)

\* C30: sequential_normal_noise returns the first game for which the
\* evaluator's continue_sampling returns False, and with a fresh
\* EquilibriumCompareEvaluator never before two sampling steps: the
\* returned game holds at least 2 * sample_increment observations per
\* profile.
C30_ReturnsAfterTwoSteps ==
    (call.op = "sequential_normal_noise" /\ call.receiver.old_equilibrium = None)
        => /\ result.raises = "none"
           /\ result.value # None
           /\ result.value.observations >= 2 * call.args.sample_increment

\* the call with a fresh evaluator ended
C30_Witness ==
    /\ call.op = "sequential_normal_noise"
    /\ call.receiver.old_equilibrium = None
    /\ call.args.has_players
    /\ result.raises = "TypeError"

\* the evaluator is never asked by sequential_normal_noise
EvaluatorNotAsked ==
    [][call'.op = "sequential_normal_noise" =>
          self' = self /\ result'.nash_calls = 0]_vars

C25_Witness ==
    /\ call.op = "sequential_normal_noise"
    /\ result.raises # "none"
    /\ result.g = None

====
